---- MODULE Spec2Model ----
(***************************************************************************)
(* Plate identity resolution, detection grouping, alert evaluation, the    *)
(* intake queue, the worker threads and their shutdown, and the retention  *)
(* sweep of the LPR counter-surveillance system.                           *)
(*                                                                         *)
(* Texts are sequences of one-character strings.  Times are whole seconds  *)
(* on one clock (datetime.now() and time.time() read the same clock).      *)
(* Similarity scores are exact fractions [num, den]; distances are kept    *)
(* doubled so that the 0.5 substitution cost stays an integer.             *)
(***************************************************************************)
EXTENDS Integers, Sequences, FiniteSets, TLC

VARIABLES
    now,                    \* the clock, seconds
    plate_queue,            \* WorkerManager.plate_queue
    recognized_plates,      \* table recognized_plates (CanonicalIdentity rows)
    original_detections,    \* table original_detections (DetectionRecord rows)
    plate_variants,         \* table plate_variants (Variant rows)
    blacklist_plates,       \* table blacklist_plates
    blacklist_detections,   \* table blacklist_detections (AlertRecord log)
    db_seq,                 \* sqlite_sequence: last AUTOINCREMENT id per table
    blacklist_cache,        \* DatabaseManager._blacklist_cache / _blacklist_cache_time
    suspicious_alert_times, \* PlateProcessor.suspicious_alert_times
    recent_plates,          \* PlateProcessor.recent_plates
    telegram,               \* TelegramNotifier: enabled, last_message_time
    telegram_log,           \* one entry per alert or message handed to the notifier
    last_enqueue,           \* outcome of the last add_plate_to_queue call
    last_pass,              \* outcome of the last process_plate call
    passes,                 \* number of process_plate calls so far
    plate_handles,          \* the LicensePlate objects delivered so far, by number
    queued_handles,         \* which LicensePlate object each item of plate_queue is
    telegram_queue,         \* WorkerManager.telegram_queue
    db_queue,               \* WorkerManager.db_queue
    image_queue,            \* WorkerManager.image_queue
    stop_flag,              \* WorkerManager.stop_flag
    worker_alive,           \* Thread.is_alive() of each worker thread
    worker_errors,          \* worker_stats['errors'], by the worker that counted the error
    stop_pc,                \* where stop_all_workers stands
    similarity_call,        \* a call of calculate_similarity_score: arguments, results
    worker_wait,            \* what is left of each worker's wait and of the current join
    processing_lock,        \* PlateProcessor.processing_lock: the thread that holds it
    clear_cache_at,         \* where a running PlateProcessor.clear_cache stands
    pass_at,                \* where a running PlateProcessor.process_plate stands
    db_lock,                \* DatabaseManager.db_lock: the thread that holds it
    stats_lock,             \* WorkerManager.stats_lock: the thread that holds it
    thread_at               \* the lock operations each thread has still to do in its call

vars == <<now, plate_queue, recognized_plates, original_detections, plate_variants,
          blacklist_plates, blacklist_detections, db_seq, blacklist_cache,
          suspicious_alert_times, recent_plates, telegram, telegram_log,
          last_enqueue, last_pass, passes, plate_handles, queued_handles,
          telegram_queue, db_queue, image_queue, stop_flag, worker_alive,
          worker_errors, stop_pc, similarity_call, worker_wait,
          processing_lock, clear_cache_at, pass_at, db_lock, stats_lock, thread_at>>

\* the state of the processor, the store and the notifier
processor_vars == <<recognized_plates, original_detections, plate_variants,
                    blacklist_plates, blacklist_detections, db_seq, blacklist_cache,
                    suspicious_alert_times, recent_plates, telegram, telegram_log,
                    last_pass, passes>>

\* the state of the worker threads and of the shutdown sequence
thread_vars == <<telegram_queue, db_queue, image_queue, stop_flag, worker_alive,
                 worker_errors, stop_pc>>

\* the store lock, the statistics lock and the threads' positions in their calls
store_locks == <<db_lock, stats_lock, thread_at>>

lock_vars == <<processing_lock, clear_cache_at, pass_at, store_locks>>

\* no thread holds the lock
NoThread == "none"

\* the threads that take locks: four workers and the GUI thread
LockThreads == {"PlateWorker", "DatabaseWorker", "CleanupWorker", "StatisticsWorker",
                "MainThread"}

\* clear_cache is not running
NotClearing == [pc |-> "idle", current_time |-> 0, seen |-> <<>>, old_plates |-> {}]

----------------------------------------------------------------------------
(* Text normalisation: improved_levenshtein.normalize_plate                 *)

LowerLetters == <<"a","b","c","d","e","f","g","h","i","j","k","l","m",
                  "n","o","p","q","r","s","t","u","v","w","x","y","z">>
UpperLetters == <<"A","B","C","D","E","F","G","H","I","J","K","L","M",
                  "N","O","P","Q","R","S","T","U","V","W","X","Y","Z">>

\* str.upper() on one character
CharUpper(c) ==
    IF \E i \in 1..Len(LowerLetters) : LowerLetters[i] = c
    THEN UpperLetters[CHOOSE i \in 1..Len(LowerLetters) : LowerLetters[i] = c]
    ELSE c

StrUpper(s) == [i \in 1..Len(s) |-> CharUpper(s[i])]

\* the character class [\s\-_.,/\\] of the regular expression
SeparatorChars == {" ", "\t", "\n", "\r", "\f", "-", "_", ".", ",", "/", "\\"}

IsNotSeparator(c) == c \notin SeparatorChars

\* a faulty normalisation: the text keeps its case
normalize_plate_keeps_case(plate_text) ==
    IF plate_text = <<>> THEN <<>>
    ELSE SelectSeq(plate_text, IsNotSeparator)

normalize_plate(plate_text) ==
    IF plate_text = <<>> THEN <<>>
    ELSE SelectSeq(StrUpper(plate_text), IsNotSeparator)

\* plate.Text().upper().replace(' ', '') in _extract_plate_data
IsNotSpace(c) == c # " "

ExtractText(raw_text) == SelectSeq(StrUpper(raw_text), IsNotSpace)

----------------------------------------------------------------------------
(* Weighted edit distance and similarity score                              *)

SIMILAR_CHARS ==
    [c \in {"0","O","1","I","L","5","S","8","B","6","G","C","2","Z",
            "E","F","P","R","M","N","U","V","K","X"} |->
        CASE c = "0" -> {"O","Q","D"}
          [] c = "O" -> {"0","Q","D"}
          [] c = "1" -> {"I","L","7"}
          [] c = "I" -> {"1","L","7"}
          [] c = "L" -> {"1","I","7"}
          [] c = "5" -> {"S"}
          [] c = "S" -> {"5"}
          [] c = "8" -> {"B"}
          [] c = "B" -> {"8"}
          [] c = "6" -> {"G"}
          [] c = "G" -> {"6","C"}
          [] c = "C" -> {"G","O"}
          [] c = "2" -> {"Z"}
          [] c = "Z" -> {"2"}
          [] c = "E" -> {"F"}
          [] c = "F" -> {"E"}
          [] c = "P" -> {"R"}
          [] c = "R" -> {"P"}
          [] c = "M" -> {"N"}
          [] c = "N" -> {"M"}
          [] c = "U" -> {"V"}
          [] c = "V" -> {"U"}
          [] c = "K" -> {"X"}
          [] c = "X" -> {"K"}]

\* a faulty lookup: the reverse mapping is not checked
are_similar_chars_one_way(char1, char2) ==
    \/ char1 = char2
    \/ (char1 \in DOMAIN SIMILAR_CHARS /\ char2 \in SIMILAR_CHARS[char1])

are_similar_chars(char1, char2) ==
    \/ char1 = char2
    \/ (char1 \in DOMAIN SIMILAR_CHARS /\ char2 \in SIMILAR_CHARS[char1])
    \/ (char2 \in DOMAIN SIMILAR_CHARS /\ char1 \in SIMILAR_CHARS[char2])

\* a faulty cost: a confusable character costs nothing
SubstitutionCost2_free(char1, char2) ==
    IF are_similar_chars(char1, char2) THEN 0 ELSE 2

\* twice the substitution cost: 0, 0.5 or 1
SubstitutionCost2(char1, char2) ==
    IF char1 = char2 THEN 0
    ELSE IF are_similar_chars(char1, char2) THEN 1
    ELSE 2

Min2(a, b) == IF a <= b THEN a ELSE b
Min3(a, b, c) == Min2(a, Min2(b, c))
Max2(a, b) == IF a >= b THEN a ELSE b

\* one row of the matrix: row[j+1] is matrix[i][j]; acc holds matrix[i][0..j-1]
RECURSIVE MatrixRow(_, _, _, _)
MatrixRow(prev, char1, s2, acc) ==
    IF Len(acc) = Len(s2) + 1 THEN acc
    ELSE LET j == Len(acc)
             deletion == prev[j + 1] + 2
             insertion == acc[j] + 2
             substitution == prev[j] + SubstitutionCost2(char1, s2[j])
         IN MatrixRow(prev, char1, s2, Append(acc, Min3(deletion, insertion, substitution)))

\* rows 1..len1 of the matrix, folded from row 0
RECURSIVE MatrixRows(_, _, _, _)
MatrixRows(s1, s2, i, prev) ==
    IF i > Len(s1) THEN prev
    ELSE MatrixRows(s1, s2, i + 1, MatrixRow(prev, s1[i], s2, <<2 * i>>))

\* twice improved_levenshtein(s1, s2)
improved_levenshtein2(s1, s2) ==
    LET s1_norm == normalize_plate(s1)
        s2_norm == normalize_plate(s2)
    IN IF s1_norm = s2_norm THEN 0
       ELSE MatrixRows(s1_norm, s2_norm, 1, [j \in 1..(Len(s2_norm) + 1) |-> 2 * (j - 1)])
                [Len(s2_norm) + 1]

\* scores are fractions num/den with den > 0
ScoreGE(a, b) == a.num * b.den >= b.num * a.den
ScoreGT(a, b) == a.num * b.den > b.num * a.den
ScoreEQ(a, b) == a.num * b.den = b.num * a.den
Percent(n) == [num |-> n, den |-> 1]

\* (1 - distance / max_len) * 100, clamped to [0, 100]
calculate_similarity_score(s1, s2) ==
    LET distance2 == improved_levenshtein2(s1, s2)
        max_len == Max2(Len(normalize_plate(s1)), Len(normalize_plate(s2)))
    IN IF max_len = 0 THEN Percent(100)
       ELSE LET similarity == [num |-> 100 * (2 * max_len - distance2), den |-> 2 * max_len]
            IN IF ScoreGT(Percent(0), similarity) THEN Percent(0)
               ELSE IF ScoreGT(similarity, Percent(100)) THEN Percent(100)
               ELSE similarity

\* a faulty table: the first boundary off by one
get_adaptive_threshold_off_by_one(plate_length) ==
    IF plate_length < 4 THEN 90
    ELSE IF plate_length <= 6 THEN 85
    ELSE IF plate_length <= 8 THEN 80
    ELSE 75

get_adaptive_threshold(plate_length) ==
    IF plate_length <= 4 THEN 90
    ELSE IF plate_length <= 6 THEN 85
    ELSE IF plate_length <= 8 THEN 80
    ELSE 75

\* None (and the empty string, which Python also treats as false)
NoText == <<>>

\* the loop of find_best_match from position i on; best = [match, score]
RECURSIVE find_best_match_from(_, _, _, _, _)
find_best_match_from(target_plate, plate_list, threshold, i, best) ==
    IF i > Len(plate_list) THEN best
    ELSE LET plate == plate_list[i]
             score == calculate_similarity_score(target_plate, plate)
         IN IF ScoreGE(score, Percent(threshold)) /\ ScoreGT(score, best.score)
            THEN find_best_match_from(target_plate, plate_list, threshold, i + 1,
                                      [match |-> plate, score |-> score])
            ELSE find_best_match_from(target_plate, plate_list, threshold, i + 1, best)

\* a faulty loop: "score >= best_score", so the last of several equal
\* candidates wins
RECURSIVE find_best_match_last_from(_, _, _, _, _)
find_best_match_last_from(target_plate, plate_list, threshold, i, best) ==
    IF i > Len(plate_list) THEN best
    ELSE LET plate == plate_list[i]
             score == calculate_similarity_score(target_plate, plate)
         IN IF ScoreGE(score, Percent(threshold)) /\ ScoreGE(score, best.score)
            THEN find_best_match_last_from(target_plate, plate_list, threshold, i + 1,
                                           [match |-> plate, score |-> score])
            ELSE find_best_match_last_from(target_plate, plate_list, threshold, i + 1, best)

find_best_match_last(target_plate, plate_list, threshold) ==
    find_best_match_last_from(target_plate, plate_list, threshold, 1,
                              [match |-> NoText, score |-> Percent(0)])

find_best_match(target_plate, plate_list, threshold) ==
    find_best_match_from(target_plate, plate_list, threshold, 1,
                         [match |-> NoText, score |-> Percent(0)])

----------------------------------------------------------------------------
(* The store: database.DatabaseManager.  Every operation takes the store as *)
(* the record db and yields the set of stores it can leave behind: a query  *)
(* whose ORDER BY leaves ties, or that has no ORDER BY, may return any of   *)
(* the orders SQL allows.                                                   *)

NoId == 0          \* NULL in an integer id column
NoPath == <<>>     \* NULL / None image path

Db == [recognized_plates |-> recognized_plates,
       original_detections |-> original_detections,
       plate_variants |-> plate_variants,
       blacklist_plates |-> blacklist_plates,
       blacklist_detections |-> blacklist_detections,
       seq |-> db_seq]

MaxOf(S) == CHOOSE x \in S : \A y \in S : y <= x

\* rowid of a new recognized_plates row (rowid table without AUTOINCREMENT)
NextRowid(db) ==
    IF db.recognized_plates = {} THEN 1
    ELSE MaxOf({p.rowid : p \in db.recognized_plates}) + 1

\* all orders in which the elements of the finite set S can be listed
RECURSIVE Orders(_)
Orders(S) ==
    IF S = {} THEN {<<>>}
    ELSE UNION {{<<x>> \o rest : rest \in Orders(S \ {x})} : x \in S}

\* SELECT plate_text_canonical FROM recognized_plates (no ORDER BY)
get_canonical_plates(db) ==
    Orders({p.plate_text_canonical : p \in db.recognized_plates})

\* SELECT * FROM recognized_plates WHERE plate_text_canonical = ?
\* (the set is empty for None; the key is unique, so it has at most one row)
get_plate_info(db, plate_text) ==
    {p \in db.recognized_plates : p.plate_text_canonical = plate_text}

create_canonical_plate(db, plate_text, country_code, confidence, timestamp) ==
    LET is_blacklisted == \E b \in db.blacklist_plates : b.plate_text = plate_text
        row == [rowid |-> NextRowid(db),
                plate_text_canonical |-> plate_text,
                first_appearance_ts |-> timestamp,
                last_appearance_ts |-> timestamp,
                detection_count |-> 1,
                country_code |-> country_code,
                highest_confidence_achieved |-> confidence,
                is_suspiciously_present |-> FALSE,
                is_blacklisted |-> is_blacklisted,
                last_detection_image_path |-> NoPath,
                last_detection_confidence |-> confidence]
    IN IF get_plate_info(db, plate_text) # {}
       THEN db    \* primary key violation: caught and logged
       ELSE [db EXCEPT !.recognized_plates = @ \cup {row}]

update_canonical_plate(db, canonical_text, confidence, timestamp, image_path) ==
    [db EXCEPT !.recognized_plates =
        {IF p.plate_text_canonical = canonical_text
         THEN [p EXCEPT !.last_appearance_ts = timestamp,
                        !.detection_count = @ + 1,
                        !.highest_confidence_achieved = Max2(@, confidence),
                        !.last_detection_image_path = image_path,
                        !.last_detection_confidence = confidence]
         ELSE p : p \in @}]

\* a faulty query: ORDER BY last_seen DESC (the latest variant, not the best)
BestVariants_latest(db, current_canonical) ==
    LET mine == {v \in db.plate_variants : v.canonical_plate_ref = current_canonical}
    IN {v \in mine : \A w \in mine : w.last_seen <= v.last_seen}

\* SELECT variant_text, max_confidence ... ORDER BY max_confidence DESC LIMIT 1
BestVariants(db, current_canonical) ==
    LET mine == {v \in db.plate_variants : v.canonical_plate_ref = current_canonical}
    IN {v \in mine : \A w \in mine : w.max_confidence <= v.max_confidence}

\* a faulty rewrite: the row is replaced by a new one whose counter starts over
RewriteCanonical_restart_count(db, current_canonical, new_canonical, max_conf) ==
    IF get_plate_info(db, current_canonical) # {} /\ get_plate_info(db, new_canonical) # {}
    THEN db
    ELSE [db EXCEPT
            !.recognized_plates =
                {IF p.plate_text_canonical = current_canonical
                 THEN [p EXCEPT !.plate_text_canonical = new_canonical,
                                !.highest_confidence_achieved = max_conf,
                                !.detection_count = 1]
                 ELSE p : p \in @},
            !.original_detections =
                {IF d.canonical_plate_text_ref = current_canonical
                 THEN [d EXCEPT !.canonical_plate_text_ref = new_canonical]
                 ELSE d : d \in @},
            !.plate_variants =
                {IF v.canonical_plate_ref = current_canonical
                 THEN [v EXCEPT !.canonical_plate_ref = new_canonical]
                 ELSE v : v \in @}]

\* a faulty rewrite: the UPDATE of original_detections is missing
RewriteCanonical_keep_detections(db, current_canonical, new_canonical, max_conf) ==
    IF get_plate_info(db, current_canonical) # {} /\ get_plate_info(db, new_canonical) # {}
    THEN db
    ELSE [db EXCEPT
            !.recognized_plates =
                {IF p.plate_text_canonical = current_canonical
                 THEN [p EXCEPT !.plate_text_canonical = new_canonical,
                                !.highest_confidence_achieved = max_conf]
                 ELSE p : p \in @},
            !.plate_variants =
                {IF v.canonical_plate_ref = current_canonical
                 THEN [v EXCEPT !.canonical_plate_ref = new_canonical]
                 ELSE v : v \in @}]

\* the three UPDATEs of _check_update_canonical for the chosen best variant
RewriteCanonical(db, current_canonical, new_canonical, max_conf) ==
    IF get_plate_info(db, current_canonical) # {} /\ get_plate_info(db, new_canonical) # {}
    THEN db    \* the first UPDATE violates the primary key: caught, nothing rewritten
    ELSE [db EXCEPT
            !.recognized_plates =
                {IF p.plate_text_canonical = current_canonical
                 THEN [p EXCEPT !.plate_text_canonical = new_canonical,
                                !.highest_confidence_achieved = max_conf]
                 ELSE p : p \in @},
            !.original_detections =
                {IF d.canonical_plate_text_ref = current_canonical
                 THEN [d EXCEPT !.canonical_plate_text_ref = new_canonical]
                 ELSE d : d \in @},
            !.plate_variants =
                {IF v.canonical_plate_ref = current_canonical
                 THEN [v EXCEPT !.canonical_plate_ref = new_canonical]
                 ELSE v : v \in @}]

check_update_canonical(db, current_canonical) ==
    IF BestVariants(db, current_canonical) = {} THEN {db}
    ELSE {IF best_variant.variant_text # current_canonical
          THEN RewriteCanonical(db, current_canonical, best_variant.variant_text,
                                best_variant.max_confidence)
          ELSE db : best_variant \in BestVariants(db, current_canonical)}

\* the upsert of _update_plate_variant for the fetched row (existing) or none
UpsertVariant(db, existing, canonical_ref, variant_text, confidence, timestamp) ==
    IF existing # {}
    THEN {[db EXCEPT !.plate_variants =
              {IF v.id = e.id
               THEN [v EXCEPT !.max_confidence = Max2(e.max_confidence, confidence),
                              !.detection_count = @ + 1,
                              !.last_seen = timestamp]
               ELSE v : v \in @}] : e \in existing}
    ELSE {[db EXCEPT !.plate_variants = @ \cup
              {[id |-> db.seq.plate_variants + 1,
                canonical_plate_ref |-> canonical_ref,
                variant_text |-> variant_text,
                max_confidence |-> confidence,
                detection_count |-> 1,
                last_seen |-> timestamp]},
            !.seq.plate_variants = @ + 1]}

update_plate_variant(db, canonical_ref, variant_text, confidence, timestamp) ==
    LET existing == {v \in db.plate_variants :
                        v.canonical_plate_ref = canonical_ref /\ v.variant_text = variant_text}
    IN UNION {check_update_canonical(d, canonical_ref) :
                d \in UpsertVariant(db, existing, canonical_ref, variant_text,
                                    confidence, timestamp)}

\* a faulty comparison: a gap of exactly the window still groups
GroupsWithLast_inclusive(time_diff) == time_diff <= 10

\* "Group if within 10 seconds"
GroupsWithLast(time_diff) == time_diff < 10

\* ... WHERE canonical_plate_text_ref = ? AND is_grouped = 0
\*     ORDER BY detection_ts DESC LIMIT 1
LastUngrouped(db, canonical_text) ==
    LET mine == {d \in db.original_detections :
                    d.canonical_plate_text_ref = canonical_text /\ ~d.is_grouped}
    IN {d \in mine : \A e \in mine : e.detection_ts <= d.detection_ts}

\* a faulty insert: a grouped detection keeps its image path
DetectionRow_keep_image(db, last, canonical_text, raw_text, confidence, timestamp, image_path) ==
    LET time_diff == IF last = {} THEN 0
                     ELSE timestamp - (CHOOSE d \in last : TRUE).detection_ts
        grouped == last # {} /\ GroupsWithLast(time_diff)
    IN [id |-> db.seq.original_detections + 1,
        canonical_plate_text_ref |-> canonical_text,
        raw_detected_text |-> raw_text,
        detection_ts |-> timestamp,
        confidence |-> confidence,
        image_path |-> image_path,
        parent_detection_id |-> IF grouped THEN (CHOOSE d \in last : TRUE).id ELSE NoId,
        time_diff_seconds |-> time_diff,
        is_grouped |-> grouped]

\* the row add_plate_detection inserts, given the fetched last detection
\* (last = {} when the query returned no row)
DetectionRow(db, last, canonical_text, raw_text, confidence, timestamp, image_path) ==
    LET time_diff == IF last = {} THEN 0
                     ELSE timestamp - (CHOOSE d \in last : TRUE).detection_ts
        grouped == last # {} /\ GroupsWithLast(time_diff)
    IN [id |-> db.seq.original_detections + 1,
        canonical_plate_text_ref |-> canonical_text,
        raw_detected_text |-> raw_text,
        detection_ts |-> timestamp,
        confidence |-> confidence,
        image_path |-> IF grouped THEN NoPath ELSE image_path,
        parent_detection_id |-> IF grouped THEN (CHOOSE d \in last : TRUE).id ELSE NoId,
        time_diff_seconds |-> time_diff,
        is_grouped |-> grouped]

InsertDetection(db, row) ==
    [db EXCEPT !.original_detections = @ \cup {row},
               !.seq.original_detections = @ + 1]

add_plate_detection(db, canonical_text, raw_text, confidence, timestamp, image_path) ==
    LET lasts == IF LastUngrouped(db, canonical_text) = {} THEN {{}}
                 ELSE {{d} : d \in LastUngrouped(db, canonical_text)}
    IN UNION {update_plate_variant(
                  InsertDetection(db, DetectionRow(db, last, canonical_text, raw_text,
                                                   confidence, timestamp, image_path)),
                  canonical_text, raw_text, confidence, timestamp) : last \in lasts}

\* the UPDATEs of _check_update_canonical that have run when statement number
\* failing raises (0: none raises): the exception is caught and logged there,
\* nothing is rolled back
RewriteCanonicalUntil(db, current_canonical, new_canonical, max_conf, failing) ==
    LET first == [db EXCEPT
                    !.recognized_plates =
                        {IF p.plate_text_canonical = current_canonical
                         THEN [p EXCEPT !.plate_text_canonical = new_canonical,
                                        !.highest_confidence_achieved = max_conf]
                         ELSE p : p \in @}]
        second == [first EXCEPT
                     !.original_detections =
                         {IF d.canonical_plate_text_ref = current_canonical
                          THEN [d EXCEPT !.canonical_plate_text_ref = new_canonical]
                          ELSE d : d \in @}]
        third == [second EXCEPT
                    !.plate_variants =
                        {IF v.canonical_plate_ref = current_canonical
                         THEN [v EXCEPT !.canonical_plate_ref = new_canonical]
                         ELSE v : v \in @}]
    IN IF get_plate_info(db, current_canonical) # {} /\ get_plate_info(db, new_canonical) # {}
       THEN db    \* the first UPDATE violates the primary key
       ELSE CASE failing = 1 -> db
              [] failing = 2 -> first
              [] failing = 3 -> second
              [] OTHER -> third

\* add_plate_detection when statement number failing of the rewrite raises:
\* the INSERT, the variant upsert and the UPDATEs that ran are committed by
\* self.conn.commit(); an error on which SQLite itself rolls the transaction
\* back leaves the store as it was
add_plate_detection_failing(db, canonical_text, raw_text, confidence, timestamp, image_path, failing) ==
    LET lasts == IF LastUngrouped(db, canonical_text) = {} THEN {{}}
                 ELSE {{d} : d \in LastUngrouped(db, canonical_text)}
        inserted == {InsertDetection(db, DetectionRow(db, last, canonical_text, raw_text,
                                                      confidence, timestamp, image_path)) :
                        last \in lasts}
        existing(d) == {v \in d.plate_variants :
                           v.canonical_plate_ref = canonical_text
                           /\ v.variant_text = raw_text}
        upserted == UNION {UpsertVariant(d, existing(d), canonical_text, raw_text,
                                         confidence, timestamp) : d \in inserted}
        rewritten(d) ==
            IF BestVariants(d, canonical_text) = {} THEN {d}
            ELSE {IF best_variant.variant_text # canonical_text
                  THEN RewriteCanonicalUntil(d, canonical_text, best_variant.variant_text,
                                             best_variant.max_confidence, failing)
                  ELSE d : best_variant \in BestVariants(d, canonical_text)}
    IN UNION {rewritten(d) : d \in upserted}
       \cup (IF failing = 0 THEN {} ELSE {db})

check_suspicious_presence(db, canonical_text) ==
    [db EXCEPT !.recognized_plates =
        {IF p.plate_text_canonical = canonical_text /\ ~p.is_suspiciously_present
         THEN [p EXCEPT !.is_suspiciously_present = TRUE]
         ELSE p : p \in @}]

\* UPDATE recognized_plates SET is_suspicious = 1 ...: the table has no column
\* is_suspicious, the statement raises, the error is caught and logged
mark_as_suspicious(db, plate_text) == db

log_blacklist_detection(db, detected_plate, matched_plate, similarity, timestamp) ==
    [db EXCEPT !.blacklist_detections = Append(@,
                  [id |-> db.seq.blacklist_detections + 1,
                   detected_plate |-> detected_plate,
                   matched_blacklist_plate |-> matched_plate,
                   similarity_score |-> similarity,
                   detection_ts |-> timestamp]),
               !.seq.blacklist_detections = @ + 1]

\* a faulty sweep: blacklisted identities are deleted as well
cleanup_old_data_blacklisted_too(db, days, t) ==
    LET cutoff_date == t - days * 86400
    IN [db EXCEPT
          !.original_detections = {d \in @ : ~(d.detection_ts < cutoff_date)},
          !.recognized_plates = {p \in @ : ~(p.last_appearance_ts < cutoff_date)}]

\* cleanup_old_data(days_to_keep) at time t: both DELETEs and the commit,
\* under db_lock; plate_variants is not touched
cleanup_old_data(db, days, t) ==
    LET cutoff_date == t - days * 86400
    IN [db EXCEPT
          !.original_detections = {d \in @ : ~(d.detection_ts < cutoff_date)},
          !.recognized_plates = {p \in @ : ~(p.last_appearance_ts < cutoff_date
                                              /\ ~p.is_blacklisted)}]

\* add_to_blacklist: the INSERT raises when the text is already listed (caught,
\* nothing changes), otherwise the flag of the identity of that text is set
add_to_blacklist(db, entry) ==
    IF \E b \in db.blacklist_plates : b.plate_text = entry.plate_text
    THEN db
    ELSE [db EXCEPT
            !.blacklist_plates = @ \cup {entry},
            !.recognized_plates =
                {IF p.plate_text_canonical = entry.plate_text
                 THEN [p EXCEPT !.is_blacklisted = TRUE] ELSE p : p \in @}]

\* remove_from_blacklist: the DELETE and the UPDATE of the flag
remove_from_blacklist(db, plate_text) ==
    [db EXCEPT
       !.blacklist_plates = {b \in @ : b.plate_text # plate_text},
       !.recognized_plates =
           {IF p.plate_text_canonical = plate_text
            THEN [p EXCEPT !.is_blacklisted = FALSE] ELSE p : p \in @}]

----------------------------------------------------------------------------
(* Blacklist cache and fuzzy blacklist check (DatabaseManager)              *)

blacklist_cache_ttl == 60
blacklist_similarity_threshold == 80
suspicious_duration_minutes == 2

\* a faulty expiry test: the cache is refreshed already at exactly the TTL
get_blacklist_cached_refresh_at_ttl(db, cache, t) ==
    IF t - cache.time >= blacklist_cache_ttl
    THEN {[entries |-> order, time |-> t] : order \in Orders(db.blacklist_plates)}
    ELSE {cache}

\* _get_blacklist_cached: the caches a lookup at time t can leave behind
\* (SELECT plate_text, reason, danger_level FROM blacklist_plates has no ORDER BY)
get_blacklist_cached(db, cache, t) ==
    IF t - cache.time > blacklist_cache_ttl
    THEN {[entries |-> order, time |-> t] : order \in Orders(db.blacklist_plates)}
    ELSE {cache}

NoMatch == [plate_text |-> NoText, reason |-> "", danger_level |-> "", score |-> Percent(0)]

RECURSIVE check_blacklist_from(_, _, _, _, _)
check_blacklist_from(entries, plate_text, threshold, i, best) ==
    IF i > Len(entries) THEN best
    ELSE LET score == calculate_similarity_score(plate_text, entries[i].plate_text)
         IN IF ScoreGE(score, Percent(threshold)) /\ ScoreGT(score, best.score)
            THEN check_blacklist_from(entries, plate_text, threshold, i + 1,
                    [plate_text |-> entries[i].plate_text, reason |-> entries[i].reason,
                     danger_level |-> entries[i].danger_level, score |-> score])
            ELSE check_blacklist_from(entries, plate_text, threshold, i + 1, best)

\* the best match over the cached entries, NoMatch for None
check_blacklist_fuzzy(entries, plate_text, threshold) ==
    check_blacklist_from(entries, plate_text, threshold, 1, NoMatch)

----------------------------------------------------------------------------
(* The notifier: telegram_notifier.TelegramNotifier.  "posted" means the    *)
(* request to the Telegram API was issued.                                  *)

rate_limit_seconds == 120

\* _cleanup_old_entries(current_time, max_age=600)
cleanup_old_entries(last_message_time, current_time) ==
    [q \in {r \in DOMAIN last_message_time : ~(current_time - last_message_time[r] > 600)}
        |-> last_message_time[q]]

Put(f, k, v) == [x \in DOMAIN f \cup {k} |-> IF x = k THEN v ELSE f[x]]

send_message(tg, plate, priority, t) ==
    IF ~tg.enabled THEN [tg |-> tg, posted |-> FALSE]
    ELSE IF plate # NoText /\ priority # "critical"
    THEN IF plate \in DOMAIN tg.last_message_time
            /\ t - tg.last_message_time[plate] < rate_limit_seconds
         THEN [tg |-> tg, posted |-> FALSE]     \* "Skipping duplicate Telegram alert"
         ELSE [tg |-> [tg EXCEPT !.last_message_time =
                          cleanup_old_entries(Put(@, plate, t), t)],
               posted |-> TRUE]
    ELSE [tg |-> tg, posted |-> TRUE]

send_photo(tg, photo_path) == tg.enabled /\ photo_path # NoPath

send_suspicious_alert(tg, plate_text, image_path, t) ==
    LET m == send_message(tg, plate_text, "high", t)
    IN [tg |-> m.tg,
        text_posted |-> m.posted,
        photo_posted |-> image_path # NoPath /\ send_photo(m.tg, image_path)]

send_blacklist_alert_no_limit(tg, image_path, priority) ==
    IF ~tg.enabled THEN [tg |-> tg, text_posted |-> FALSE, photo_posted |-> FALSE]
    ELSE [tg |-> tg,
          text_posted |-> TRUE,
          photo_posted |-> image_path # NoPath /\ send_photo(tg, image_path)]

----------------------------------------------------------------------------
(* plate_processor.PlateProcessor                                           *)

suspicious_alert_interval == 10
cache_timeout == 300

\* CONFIG['save_images'] and the outcome of _save_plate_image
save_plate_image(plate, timestamp, canonical_text) ==
    IF plate.image_ok THEN <<timestamp, canonical_text>> ELSE NoPath

\* a faulty resolution: only a canonical text equal to the detected text matches
find_or_create_canonical_exact(db, canonical_plates, plate_text, plate, timestamp) ==
    IF \E i \in 1..Len(canonical_plates) : canonical_plates[i] = plate_text
    THEN [db |-> db, canonical_text |-> plate_text, created |-> FALSE, threshold |-> 0]
    ELSE [db |-> create_canonical_plate(db, plate_text, plate.country_code,
                                        plate.confidence, timestamp),
          canonical_text |-> plate_text, created |-> TRUE, threshold |-> 0]

\* _find_or_create_canonical for the fetched list canonical_plates:
\* the store afterwards, the text returned, whether an identity was created
find_or_create_canonical(db, canonical_plates, plate_text, plate, timestamp) ==
    IF canonical_plates = <<>>
    THEN [db |-> create_canonical_plate(db, plate_text, plate.country_code,
                                        plate.confidence, timestamp),
          canonical_text |-> plate_text, created |-> TRUE, threshold |-> 0]
    ELSE LET normalized_length == Len(normalize_plate(plate_text))
             threshold == get_adaptive_threshold(normalized_length)
             best == find_best_match(plate_text, canonical_plates, threshold)
         IN IF best.match # NoText
            THEN [db |-> db, canonical_text |-> best.match, created |-> FALSE,
                  threshold |-> threshold]
            ELSE [db |-> create_canonical_plate(db, plate_text, plate.country_code,
                                                plate.confidence, timestamp),
                  canonical_text |-> plate_text, created |-> TRUE,
                  threshold |-> threshold]

\* the tail of _update_database: the suspicious-presence flag
UpdateSuspiciousPresence(db, canonical_text, timestamp) ==
    LET plate_info == get_plate_info(db, canonical_text)
    IN IF plate_info # {}
          /\ timestamp - (CHOOSE p \in plate_info : TRUE).first_appearance_ts
                > suspicious_duration_minutes * 60
       THEN check_suspicious_presence(db, canonical_text)
       ELSE db

update_database(db, canonical_text, plate, timestamp, image_path) ==
    {UpdateSuspiciousPresence(d, canonical_text, timestamp) :
        d \in add_plate_detection(
                 update_canonical_plate(db, canonical_text, plate.confidence,
                                        timestamp, image_path),
                 canonical_text, plate.text, plate.confidence, timestamp, image_path)}

should_send_suspicious_alert(times, plate_text, current_time) ==
    IF plate_text \notin DOMAIN times THEN TRUE
    ELSE current_time - times[plate_text] >= suspicious_alert_interval

update_suspicious_alert_time(times, plate_text, timestamp) ==
    Put(times, plate_text, timestamp)

PriorityOf(danger_level) ==
    CASE danger_level = "CRITICAL" -> "critical"
      [] danger_level = "HIGH" -> "high"
      [] danger_level = "MEDIUM" -> "normal"
      [] danger_level = "LOW" -> "low"
      [] OTHER -> "critical"

\* a faulty blacklist half: the alert passes through the dwell throttle
CheckBlacklist_throttled(ps, entries, canonical_text, identity, timestamp, image_path) ==
    LET fuzzy_match == check_blacklist_fuzzy(entries, canonical_text,
                                             blacklist_similarity_threshold)
    IN IF /\ Len(entries) > 0 /\ fuzzy_match.plate_text # NoText
          /\ should_send_suspicious_alert(ps.times, canonical_text, timestamp)
       THEN LET sent == send_blacklist_alert_no_limit(ps.tg, image_path,
                                                      PriorityOf(fuzzy_match.danger_level))
            IN [ps EXCEPT
                  !.tg = sent.tg,
                  !.log = Append(@, [kind |-> "blacklist", plate |-> canonical_text,
                                     identity |-> identity, ts |-> timestamp,
                                     text_posted |-> sent.text_posted,
                                     photo_posted |-> sent.photo_posted]),
                  !.times = update_suspicious_alert_time(@, canonical_text, timestamp),
                  !.db = log_blacklist_detection(@, canonical_text, fuzzy_match.plate_text,
                                                 fuzzy_match.score, timestamp)]
       ELSE ps

\* the blacklist half of _check_alerts; ps = [db, tg, log, times]
CheckBlacklist(ps, entries, canonical_text, identity, timestamp, image_path) ==
    LET fuzzy_match == check_blacklist_fuzzy(entries, canonical_text,
                                             blacklist_similarity_threshold)
    IN IF Len(entries) > 0 /\ fuzzy_match.plate_text # NoText
       THEN LET sent == send_blacklist_alert_no_limit(ps.tg, image_path,
                                                      PriorityOf(fuzzy_match.danger_level))
            IN [ps EXCEPT
                  !.tg = sent.tg,
                  !.log = Append(@, [kind |-> "blacklist", plate |-> canonical_text,
                                     identity |-> identity, ts |-> timestamp,
                                     text_posted |-> sent.text_posted,
                                     photo_posted |-> sent.photo_posted]),
                  !.db = log_blacklist_detection(@, canonical_text, fuzzy_match.plate_text,
                                                 fuzzy_match.score, timestamp)]
       ELSE ps

\* whether _check_alerts reaches the throttle for this detection
DwellQualifies(plate_info, timestamp) ==
    /\ plate_info # {}
    /\ (timestamp - (CHOOSE p \in plate_info : TRUE).first_appearance_ts) \div 60
          > suspicious_duration_minutes

\* the suspicious-presence half of _check_alerts
CheckSuspicious(ps, canonical_text, identity, timestamp, image_path) ==
    LET plate_info == get_plate_info(ps.db, canonical_text)
    IN IF DwellQualifies(plate_info, timestamp)
       THEN LET is_suspicious == (CHOOSE p \in plate_info : TRUE).is_suspiciously_present
                should_send == should_send_suspicious_alert(ps.times, canonical_text, timestamp)
                sent == send_suspicious_alert(ps.tg, canonical_text, image_path, timestamp)
                ps1 == IF should_send
                       THEN [ps EXCEPT
                               !.tg = sent.tg,
                               !.log = Append(@, [kind |-> "suspicious",
                                                  plate |-> canonical_text,
                                                  identity |-> identity, ts |-> timestamp,
                                                  text_posted |-> sent.text_posted,
                                                  photo_posted |-> sent.photo_posted]),
                               !.times = update_suspicious_alert_time(@, canonical_text,
                                                                      timestamp)]
                       ELSE ps
            IN IF ~is_suspicious
               THEN [ps1 EXCEPT !.db = mark_as_suspicious(@, canonical_text)]
               ELSE ps1
       ELSE ps

check_alerts(ps, entries, canonical_text, identity, timestamp, image_path) ==
    CheckSuspicious(CheckBlacklist(ps, entries, canonical_text, identity, timestamp,
                                   image_path),
                    canonical_text, identity, timestamp, image_path)

\* _update_cache
update_cache(recent, canonical_text, plate, current_time) ==
    LET kept == {r \in DOMAIN recent :
                    ~(current_time - recent[r].timestamp > cache_timeout)}
    IN Put([r \in kept |-> recent[r]], canonical_text,
           [timestamp |-> current_time, confidence |-> plate.confidence,
            country |-> plate.country_code])

\* rowid of the identity a canonical text names (NoId when there is none)
IdentityOf(db, canonical_text) ==
    IF get_plate_info(db, canonical_text) = {} THEN NoId
    ELSE (CHOOSE p \in get_plate_info(db, canonical_text) : TRUE).rowid

NoPass == [raw |-> NoText, text |-> NoText, canonical_plates |-> <<>>, threshold |-> 0,
           created |-> FALSE, result |-> NoText, identity |-> NoId, ts |-> 0,
           image_path |-> NoPath, failing |-> {}]

\* process_plate after validation, for one fetched order of the canonical texts
ProcessValid(plate, plate_text, canonical_plates, timestamp) ==
    LET res == find_or_create_canonical(Db, canonical_plates, plate_text, plate, timestamp)
        canonical_text == res.canonical_text
        identity == IdentityOf(res.db, canonical_text)
        image_path == save_plate_image(plate, timestamp, canonical_text)
        pass == [raw |-> plate.text, text |-> plate_text,
                 canonical_plates |-> canonical_plates, threshold |-> res.threshold,
                 created |-> res.created, result |-> canonical_text,
                 identity |-> identity, ts |-> timestamp, image_path |-> image_path,
                 failing |-> {}]
    IN UNION {
         {[ps |-> check_alerts([db |-> db2, tg |-> telegram, log |-> telegram_log,
                                times |-> suspicious_alert_times],
                               cache2.entries, canonical_text, identity, timestamp,
                               image_path),
           cache |-> cache2,
           recent |-> update_cache(recent_plates, canonical_text, plate, timestamp),
           pass |-> pass] :
            cache2 \in get_blacklist_cached(db2, blacklist_cache, timestamp)} :
         db2 \in update_database(res.db, canonical_text, plate, timestamp, image_path)}

\* process_plate returning None before it has touched anything
NoEffect(plate, timestamp) ==
    [ps |-> [db |-> Db, tg |-> telegram, log |-> telegram_log,
             times |-> suspicious_alert_times],
     cache |-> blacklist_cache, recent |-> recent_plates,
     pass |-> [NoPass EXCEPT !.raw = plate.text, !.ts = timestamp]]

\* a faulty process_plate: the validation of the text is skipped
process_plate_unvalidated(plate, timestamp) ==
    UNION {ProcessValid(plate, ExtractText(plate.text), canonical_plates, timestamp) :
              canonical_plates \in get_canonical_plates(Db)}

\* everything one call process_plate(plate) at time timestamp can leave behind
process_plate(plate, timestamp) ==
    LET plate_text == ExtractText(plate.text)
    IN IF plate_text = <<>>
       THEN {NoEffect(plate, timestamp)}
       ELSE UNION {ProcessValid(plate, plate_text, canonical_plates, timestamp) :
                      canonical_plates \in get_canonical_plates(Db)}

\* the DatabaseManager methods a pass calls that write to the store
StoreMethods == {"create_canonical_plate", "update_canonical_plate", "add_plate_detection",
                 "_update_plate_variant", "log_blacklist_detection"}

\* a faulty method: create_canonical_plate lets its exception out
Catches_not_create(method) == method # "create_canonical_plate"

\* whether the method's own `except Exception` catches what its statement raises
Catches(method) == method \in StoreMethods

\* whether the exception of a failing method leaves the method
Escapes(method, failing) == method \in failing /\ ~Catches(method)

\* add_plate_detection when the first statement of the methods in failing raises
AddDetectionFailing(db, canonical_text, plate, timestamp, image_path, failing) ==
    LET lasts == IF LastUngrouped(db, canonical_text) = {} THEN {{}}
                 ELSE {{d} : d \in LastUngrouped(db, canonical_text)}
    IN IF "add_plate_detection" \in failing THEN {db}
       ELSE IF "_update_plate_variant" \in failing
       THEN {InsertDetection(db, DetectionRow(db, last, canonical_text, plate.text,
                                              plate.confidence, timestamp, image_path)) :
                last \in lasts}
       ELSE add_plate_detection(db, canonical_text, plate.text, plate.confidence,
                                timestamp, image_path)

\* _update_database when the first statement of the methods in failing raises:
\* a method that catches returns without having written, an exception that
\* leaves a method ends _update_database in its own handler
UpdateDatabaseFailing(db, canonical_text, plate, timestamp, image_path, failing) ==
    IF Escapes("update_canonical_plate", failing) THEN {db}
    ELSE UNION {
           IF Escapes("add_plate_detection", failing) \/ Escapes("_update_plate_variant", failing)
           THEN AddDetectionFailing(updated, canonical_text, plate, timestamp, image_path,
                                    failing)
           ELSE {UpdateSuspiciousPresence(d, canonical_text, timestamp) :
                    d \in AddDetectionFailing(updated, canonical_text, plate, timestamp,
                                              image_path, failing)} :
           updated \in {IF "update_canonical_plate" \in failing THEN db
                        ELSE update_canonical_plate(db, canonical_text, plate.confidence,
                                                    timestamp, image_path)}}

\* _check_alerts when log_blacklist_detection may raise: the alert has been
\* sent before the method is called; an exception that leaves the method ends
\* _check_alerts in its own handler
CheckAlertsFailing(ps, entries, canonical_text, identity, timestamp, image_path, failing) ==
    IF "log_blacklist_detection" \notin failing
    THEN check_alerts(ps, entries, canonical_text, identity, timestamp, image_path)
    ELSE CHOOSE r \in {IF Escapes("log_blacklist_detection", failing) /\ listed # ps
                       THEN [listed EXCEPT !.db = ps.db]
                       ELSE CheckSuspicious([listed EXCEPT !.db = ps.db], canonical_text,
                                            identity, timestamp, image_path) :
                          listed \in {CheckBlacklist(ps, entries, canonical_text, identity,
                                                     timestamp, image_path)}} : TRUE

\* process_plate after validation when the first statement of every method in
\* failing raises; an exception that leaves create_canonical_plate ends the
\* pass in process_plate's own handler
ProcessValidFailing(plate, plate_text, canonical_plates, timestamp, failing) ==
    LET res == find_or_create_canonical(Db, canonical_plates, plate_text, plate, timestamp)
        create_fails == res.created /\ "create_canonical_plate" \in failing
        canonical_text == res.canonical_text
        image_path == save_plate_image(plate, timestamp, canonical_text)
    IN IF create_fails /\ Escapes("create_canonical_plate", failing)
       THEN {[NoEffect(plate, timestamp) EXCEPT !.pass.text = plate_text,
                                                !.pass.failing = failing]}
       ELSE UNION {UNION {
              {[ps |-> CheckAlertsFailing([db |-> db2, tg |-> telegram, log |-> telegram_log,
                                           times |-> suspicious_alert_times],
                                          cache2.entries, canonical_text,
                                          IdentityOf(db1, canonical_text), timestamp,
                                          image_path, failing),
                cache |-> cache2,
                recent |-> update_cache(recent_plates, canonical_text, plate, timestamp),
                pass |-> [raw |-> plate.text, text |-> plate_text,
                          canonical_plates |-> canonical_plates,
                          threshold |-> res.threshold, created |-> res.created,
                          result |-> canonical_text,
                          identity |-> IdentityOf(db1, canonical_text), ts |-> timestamp,
                          image_path |-> image_path, failing |-> failing]] :
                 cache2 \in get_blacklist_cached(db2, blacklist_cache, timestamp)} :
              db2 \in UpdateDatabaseFailing(db1, canonical_text, plate, timestamp,
                                            image_path, failing)} :
              db1 \in {IF create_fails THEN Db ELSE res.db}}

\* everything one call process_plate(plate) at time timestamp can leave behind
\* when the store methods in failing raise
process_plate_failing(plate, timestamp, failing) ==
    LET plate_text == ExtractText(plate.text)
    IN IF plate_text = <<>>
       THEN {NoEffect(plate, timestamp)}
       ELSE UNION {ProcessValidFailing(plate, plate_text, canonical_plates, timestamp, failing) :
                      canonical_plates \in get_canonical_plates(Db)}

\* PlateProcessor.clear_cache at time current_time
clear_cache(current_time) ==
    [recent |-> <<>>,
     times |-> [t \in {x \in DOMAIN suspicious_alert_times :
                          ~(current_time - suspicious_alert_times[x] > 3600)}
                   |-> suspicious_alert_times[t]]]

\* the state after outcome o of process_plate
Becomes(o) ==
    /\ recognized_plates' = o.ps.db.recognized_plates
    /\ original_detections' = o.ps.db.original_detections
    /\ plate_variants' = o.ps.db.plate_variants
    /\ blacklist_plates' = o.ps.db.blacklist_plates
    /\ blacklist_detections' = o.ps.db.blacklist_detections
    /\ db_seq' = o.ps.db.seq
    /\ blacklist_cache' = o.cache
    /\ suspicious_alert_times' = o.ps.times
    /\ recent_plates' = o.recent
    /\ telegram' = o.ps.tg
    /\ telegram_log' = o.ps.log
    /\ last_pass' = o.pass

----------------------------------------------------------------------------
(* DTKLPR5.LicensePlate: the native handle behind one delivered detection   *)

\* LicensePlate.__init__, as the engine's callback constructs it.  hPlate is
\* whether the native handle is still held, releases counts the calls of
\* LicensePlate_Destroy, destroy_calls the calls of destroy() by the consumer,
\* collected whether __del__ has run; fate is what became of the detection and
\* detection the id of the row of original_detections written for it.
NewLicensePlate ==
    [hPlate |-> TRUE, destroy_calls |-> 0, releases |-> 0, fate |-> "queued",
     collected |-> FALSE, detection |-> NoId]

\* LicensePlate.destroy: the native release, guarded by hPlate
destroy(h) ==
    IF h.hPlate THEN [h EXCEPT !.releases = @ + 1, !.hPlate = FALSE] ELSE h

\* plate.destroy() in the finally clause of process_plate
DestroyedByConsumer(h, fate) ==
    [destroy(h) EXCEPT !.destroy_calls = @ + 1, !.fate = fate]

\* LicensePlate.__del__, run when the object is collected
Del(h) == [destroy(h) EXCEPT !.collected = TRUE]

\* what became of a detection that process_plate was called on
FateOf(pass, fault) ==
    IF pass.result # NoText THEN "processed"
    ELSE IF fault = "extract" THEN "failed" ELSE "rejected"

----------------------------------------------------------------------------
(* workers.WorkerManager: the queues, the worker threads, the shutdown      *)

PlateQueueSize == 2     \* QUEUE_SIZES['plate_queue'], scaled down
OtherQueueSize == 1     \* QUEUE_SIZES of telegram_queue, db_queue, image_queue, scaled down
days_to_keep == 30      \* the argument of the 'cleanup' operation

\* self.workers, in the order start_all_workers starts and stop_all_workers joins
Workers == <<"PlateWorker", "TelegramWorker", "DatabaseWorker", "ImageWorker",
             "UIUpdateWorker", "CleanupWorker", "StatisticsWorker">>
WorkerNames == {Workers[i] : i \in 1..Len(Workers)}

\* worker_stats['errors']
RECURSIVE SumOver(_, _)
SumOver(f, S) ==
    IF S = {} THEN 0
    ELSE LET x == CHOOSE y \in S : TRUE IN f[x] + SumOver(f, S \ {x})
Errors == SumOver(worker_errors, WorkerNames)

\* the loop condition of a worker thread that has not returned
Running(w) == worker_alive[w] /\ ~stop_flag

\* a faulty overflow policy: the oldest queued item makes room for the new one
add_plate_to_queue_drop_oldest(queue, plate) ==
    IF Len(queue) < PlateQueueSize
    THEN [queue |-> Append(queue, plate), returned |-> TRUE]
    ELSE [queue |-> Append(Tail(queue), plate), returned |-> TRUE]

\* add_plate_to_queue: Queue.put_nowait, queue.Full caught
add_plate_to_queue(queue, plate) ==
    IF Len(queue) < PlateQueueSize
    THEN [queue |-> Append(queue, plate), returned |-> TRUE]
    ELSE [queue |-> queue, returned |-> FALSE]

\* LPRApplication.on_plate_detected, called by the engine with a new LicensePlate
OnPlateDetected(plate) ==
    LET put == add_plate_to_queue(plate_queue, plate)
    IN /\ plate_queue' = put.queue
       /\ last_enqueue' = [n |-> last_enqueue.n + 1, plate |-> plate,
                           returned |-> put.returned]
       /\ plate_handles' = Append(plate_handles,
                                  IF put.returned THEN NewLicensePlate
                                  ELSE [NewLicensePlate EXCEPT !.fate = "dropped"])
       /\ queued_handles' = IF put.returned
                            THEN Append(queued_handles, Len(plate_handles) + 1)
                            ELSE queued_handles
       /\ UNCHANGED <<now, processor_vars, thread_vars, similarity_call, worker_wait, lock_vars>>

\* a faulty worker loop: the exception ends the thread
AfterException_exits(w) == [worker_alive EXCEPT ![w] = FALSE]

\* except Exception in a worker loop: logged and counted, the loop goes on
AfterException(w) == worker_alive

\* the end of one loop iteration of worker w, failed or not
IterationEnds(w, failed) ==
    /\ worker_errors' = IF failed THEN [worker_errors EXCEPT ![w] = @ + 1]
                        ELSE worker_errors
    /\ worker_alive' = IF failed THEN AfterException(w) ELSE worker_alive

\* a faulty queue: get returns the newest item
QueueGet_newest(queue) ==
    [item |-> queue[Len(queue)], rest |-> SubSeq(queue, 1, Len(queue) - 1)]

\* Queue.get on a queue that holds an item: first in, first out
QueueGet(queue) == [item |-> Head(queue), rest |-> Tail(queue)]

\* the id of the row a pass has inserted into original_detections
InsertedDetection(o) ==
    IF o.ps.db.seq.original_detections > db_seq.original_detections
    THEN o.ps.db.seq.original_detections
    ELSE NoId

\* one iteration of plate_worker that gets a plate, dt seconds after the last
\* pass.  fault "extract": reading the plate raises inside process_plate;
\* fault "worker": request_ui_update raises after a successful process_plate.
PlateWorker(dt, fault) ==
    /\ Running("PlateWorker")
    /\ plate_queue # <<>>
    /\ plate_queue' = QueueGet(plate_queue).rest
    /\ queued_handles' = QueueGet(queued_handles).rest
    /\ now' = now + dt
    /\ passes' = passes + 1
    /\ \E o \in (IF fault = "extract" THEN {NoEffect(QueueGet(plate_queue).item, now + dt)}
                 ELSE process_plate(QueueGet(plate_queue).item, now + dt)) :
          /\ fault = "worker" => o.pass.result # NoText
          /\ Becomes(o)
          /\ plate_handles' = [plate_handles EXCEPT ![QueueGet(queued_handles).item] =
                                  [DestroyedByConsumer(@, FateOf(o.pass, fault))
                                      EXCEPT !.detection = InsertedDetection(o)]]
    /\ IterationEnds("PlateWorker", fault = "worker")
    /\ UNCHANGED <<last_enqueue, similarity_call, worker_wait, lock_vars, telegram_queue, db_queue, image_queue, stop_flag, stop_pc>>

\* the body of "with self.processing_lock:" in process_plate, dt seconds after
\* the last pass
ProcessPlateLocked(plate, dt) ==
    /\ now' = now + dt
    /\ passes' = passes + 1
    /\ \E o \in process_plate(plate, now + dt) :
          /\ Becomes(o)
          /\ plate_handles' = Append(plate_handles,
                                     DestroyedByConsumer(NewLicensePlate, FateOf(o.pass, "none")))
    /\ UNCHANGED <<plate_queue, queued_handles, last_enqueue, similarity_call, worker_wait, thread_vars>>

\* PlateProcessor.process_plate called on a detection, dt seconds after the last
\* pass: the lock is taken, the body runs, the lock is released
ProcessPlate(plate, dt) ==
    /\ processing_lock = NoThread
    /\ ProcessPlateLocked(plate, dt)
    /\ UNCHANGED lock_vars

\* PlateProcessor.process_plate called on a detection while the store methods
\* in failing raise
ProcessPlateFailing(plate, dt, failing) ==
    /\ now' = now + dt
    /\ passes' = passes + 1
    /\ \E o \in process_plate_failing(plate, now + dt, failing) :
          /\ Becomes(o)
          /\ plate_handles' = Append(plate_handles,
                                     DestroyedByConsumer(NewLicensePlate, FateOf(o.pass, "none")))
    /\ UNCHANGED <<plate_queue, queued_handles, last_enqueue, similarity_call, worker_wait, lock_vars, thread_vars>>

\* one iteration of telegram_worker that gets an item; failed when the
\* dispatch raises
TelegramWorker(failed) ==
    /\ Running("TelegramWorker")
    /\ telegram_queue # <<>>
    /\ telegram_queue' = Tail(telegram_queue)
    /\ telegram_log' = IF failed THEN telegram_log
                       ELSE Append(telegram_log,
                                   [kind |-> Head(telegram_queue).type, plate |-> NoText,
                                    identity |-> NoId, ts |-> now,
                                    text_posted |-> telegram.enabled,
                                    photo_posted |-> FALSE])
    /\ IterationEnds("TelegramWorker", failed)
    /\ UNCHANGED <<now, plate_queue, queued_handles, plate_handles, last_enqueue, similarity_call, worker_wait, lock_vars,
                   recognized_plates, original_detections, plate_variants,
                   blacklist_plates, blacklist_detections, db_seq, blacklist_cache,
                   suspicious_alert_times, recent_plates, telegram, last_pass, passes,
                   db_queue, image_queue, stop_flag, stop_pc>>

\* one iteration of database_worker that gets an item; failed when unpacking
\* the item raises
DatabaseWorker(failed) ==
    /\ Running("DatabaseWorker")
    /\ db_queue # <<>>
    /\ db_queue' = Tail(db_queue)
    /\ LET db2 == IF failed \/ Head(db_queue).op # "cleanup" THEN Db
                  ELSE cleanup_old_data(Db, Head(db_queue).data, now)
       IN /\ recognized_plates' = db2.recognized_plates
          /\ original_detections' = db2.original_detections
    /\ IterationEnds("DatabaseWorker", failed)
    /\ UNCHANGED <<now, plate_queue, queued_handles, plate_handles, last_enqueue, similarity_call, worker_wait, lock_vars,
                   plate_variants, blacklist_plates, blacklist_detections, db_seq,
                   blacklist_cache, suspicious_alert_times, recent_plates, telegram,
                   telegram_log, last_pass, passes,
                   telegram_queue, image_queue, stop_flag, stop_pc>>

\* one iteration of image_worker, ui_update_worker, or of any worker whose
\* queue.get timed out: nothing to do
IdleWorker(w) ==
    /\ Running(w)
    /\ w = "PlateWorker" => plate_queue = <<>>
    /\ w = "TelegramWorker" => telegram_queue = <<>>
    /\ w = "DatabaseWorker" => db_queue = <<>>
    /\ w \notin {"CleanupWorker", "StatisticsWorker"}
    /\ UNCHANGED vars

\* one iteration of cleanup_worker when the hourly cleanup is due: the
\* blocking put of ('cleanup', 30) on db_queue, then clear_cache
CleanupWorker(failed) ==
    /\ Running("CleanupWorker")
    /\ failed \/ Len(db_queue) < OtherQueueSize
    /\ db_queue' = IF failed THEN db_queue
                   ELSE Append(db_queue, [op |-> "cleanup", data |-> days_to_keep])
    /\ recent_plates' = IF failed THEN recent_plates ELSE clear_cache(now).recent
    /\ suspicious_alert_times' = IF failed THEN suspicious_alert_times
                                 ELSE clear_cache(now).times
    /\ IterationEnds("CleanupWorker", failed)
    /\ UNCHANGED <<now, plate_queue, queued_handles, plate_handles, last_enqueue, similarity_call, worker_wait, lock_vars,
                   recognized_plates, original_detections, plate_variants,
                   blacklist_plates, blacklist_detections, db_seq, blacklist_cache,
                   telegram, telegram_log, last_pass, passes,
                   telegram_queue, image_queue, stop_flag, stop_pc>>

\* one iteration of statistics_worker at midnight: the blocking put of the
\* daily report on telegram_queue
StatisticsWorker(failed) ==
    /\ Running("StatisticsWorker")
    /\ failed \/ Len(telegram_queue) < OtherQueueSize
    /\ telegram_queue' = IF failed THEN telegram_queue
                         ELSE Append(telegram_queue, [type |-> "message"])
    /\ IterationEnds("StatisticsWorker", failed)
    /\ UNCHANGED <<now, plate_queue, queued_handles, plate_handles, last_enqueue, similarity_call, worker_wait, lock_vars,
                   processor_vars, db_queue, image_queue, stop_flag, stop_pc>>

\* a worker thread finds the stop flag set at its loop test and returns
WorkerReturns(w) ==
    /\ worker_alive[w] /\ stop_flag
    /\ worker_alive' = [worker_alive EXCEPT ![w] = FALSE]
    /\ UNCHANGED <<now, plate_queue, queued_handles, plate_handles, last_enqueue, similarity_call, worker_wait, lock_vars,
                   processor_vars, telegram_queue, db_queue, image_queue, stop_flag,
                   worker_errors, stop_pc>>

\* the clock moves on while nothing is detected
TimePasses(dt) ==
    /\ now' = now + dt
    /\ UNCHANGED <<plate_queue, queued_handles, plate_handles, last_enqueue, similarity_call, worker_wait, lock_vars,
                   processor_vars, thread_vars>>

\* the garbage collector runs __del__ of a LicensePlate nothing refers to
Finalize(n) ==
    /\ n \in 1..Len(plate_handles)
    /\ plate_handles[n].fate # "queued"
    /\ ~plate_handles[n].collected
    /\ plate_handles' = [plate_handles EXCEPT ![n] = Del(@)]
    /\ UNCHANGED <<now, plate_queue, queued_handles, last_enqueue, similarity_call, worker_wait, lock_vars, processor_vars,
                   thread_vars>>

\* stop_all_workers, statement by statement.  stop_pc.at is the statement
\* about to run, stop_pc.i the thread the join loop stands at.
StopIdle == [at |-> "idle", i |-> 0]

\* self.stop_flag.set()
StopFlagSet ==
    /\ stop_pc.at = "idle"
    /\ stop_flag' = TRUE
    /\ stop_pc' = [at |-> "plate_queue", i |-> 0]
    /\ UNCHANGED <<now, plate_queue, queued_handles, plate_handles, last_enqueue, similarity_call, worker_wait, lock_vars,
                   processor_vars, telegram_queue, db_queue, image_queue,
                   worker_alive, worker_errors>>

\* while True: self.plate_queue.get_nowait(), until queue.Empty
DrainPlateQueue ==
    /\ stop_pc.at = "plate_queue"
    /\ IF plate_queue # <<>>
       THEN /\ plate_queue' = Tail(plate_queue)
            /\ queued_handles' = Tail(queued_handles)
            /\ plate_handles' = [plate_handles EXCEPT
                                    ![Head(queued_handles)].fate = "drained"]
            /\ UNCHANGED stop_pc
       ELSE /\ stop_pc' = [at |-> "telegram_queue", i |-> 0]
            /\ UNCHANGED <<plate_queue, queued_handles, plate_handles>>
    /\ UNCHANGED <<now, last_enqueue, similarity_call, worker_wait, lock_vars, processor_vars, telegram_queue, db_queue, image_queue,
                   stop_flag, worker_alive, worker_errors>>

\* the same loop on telegram_queue, db_queue and image_queue
DrainOtherQueues ==
    /\ stop_pc.at \in {"telegram_queue", "db_queue", "image_queue"}
    /\ LET queue == CASE stop_pc.at = "telegram_queue" -> telegram_queue
                      [] stop_pc.at = "db_queue" -> db_queue
                      [] OTHER -> image_queue
           rest == IF queue = <<>> THEN queue ELSE Tail(queue)
       IN /\ telegram_queue' = IF stop_pc.at = "telegram_queue" THEN rest ELSE telegram_queue
          /\ db_queue' = IF stop_pc.at = "db_queue" THEN rest ELSE db_queue
          /\ image_queue' = IF stop_pc.at = "image_queue" THEN rest ELSE image_queue
          /\ stop_pc' = IF queue # <<>> THEN stop_pc
                        ELSE CASE stop_pc.at = "telegram_queue" -> [at |-> "db_queue", i |-> 0]
                               [] stop_pc.at = "db_queue" -> [at |-> "image_queue", i |-> 0]
                               [] OTHER -> [at |-> "join", i |-> 1]
    /\ UNCHANGED <<now, plate_queue, queued_handles, plate_handles, last_enqueue, similarity_call, worker_wait, lock_vars,
                   processor_vars, stop_flag, worker_alive, worker_errors>>

\* a faulty join: no timeout, it waits until the thread has returned
JoinReturns_no_timeout(w) == ~worker_alive[w]

\* when thread.join(timeout=8) returns: the thread has returned, or the
\* timeout has passed with the thread still alive
JoinReturns(w) == ~worker_alive[w] \/ worker_alive[w]

\* thread.join(timeout=8) on self.workers[stop_pc.i]: it returns when the
\* thread has returned or when the timeout has passed; a thread still alive
\* is logged and the loop goes on
JoinWorker ==
    /\ stop_pc.at = "join"
    /\ JoinReturns(Workers[stop_pc.i])
    /\ stop_pc' = IF stop_pc.i < Len(Workers)
                  THEN [at |-> "join", i |-> stop_pc.i + 1]
                  ELSE [at |-> "returned", i |-> 0]
    /\ UNCHANGED <<now, plate_queue, queued_handles, plate_handles, last_enqueue, similarity_call, worker_wait, lock_vars,
                   processor_vars, telegram_queue, db_queue, image_queue, stop_flag,
                   worker_alive, worker_errors>>

----------------------------------------------------------------------------
(* Inputs                                                                   *)

AB123C == <<"A","B","1","2","3","C">>
AB128C == <<"A","B","1","2","8","C">>
A8123C == <<"A","8","1","2","3","C">>
A8I23C == <<"A","8","I","2","3","C">>
AB12 == <<"A","B","1","2">>
A812 == <<"A","8","1","2">>
AB12345678 == <<"A","B","1","2","3","4","5","6","7","8">>
A8XX345678 == <<"A","8","X","X","3","4","5","6","7","8">>
AB123456 == <<"A","B","1","2","3","4","5","6">>
A8X23456 == <<"A","8","X","2","3","4","5","6">>
ab_123c == <<"a","b","-","1","2","3","c">>
Blank == <<" ">>

PlatesOf(texts, confidences, images) ==
    [text : texts, confidence : confidences, image_ok : images, country_code : {"AZ"}]

Plate(text, confidence, image_ok) ==
    [text |-> text, confidence |-> confidence, image_ok |-> image_ok, country_code |-> "AZ"]

BlacklistEntry(text) == [plate_text |-> text, reason |-> "stolen", danger_level |-> "HIGH"]

\* the state after construction, over the blacklist table found in the database
InitObjects(blacklists, enableds) ==
    /\ now = 1000
    /\ plate_queue = <<>>
    /\ recognized_plates = {}
    /\ original_detections = {}
    /\ plate_variants = {}
    /\ blacklist_plates \in blacklists
    /\ blacklist_detections = <<>>
    /\ db_seq = [original_detections |-> 0, plate_variants |-> 0, blacklist_detections |-> 0]
    /\ blacklist_cache = [entries |-> <<>>, time |-> 0]
    /\ suspicious_alert_times = <<>>
    /\ recent_plates = <<>>
    /\ telegram \in [enabled : enableds, last_message_time : {<<>>}]
    /\ telegram_log = <<>>
    /\ last_enqueue = [n |-> 0, plate |-> CHOOSE p \in PlatesOf({AB123C}, {70}, {TRUE}) : TRUE,
                       returned |-> TRUE]
    /\ last_pass = NoPass
    /\ passes = 0
    /\ plate_handles = <<>>
    /\ queued_handles = <<>>
    /\ telegram_queue = <<>>
    /\ db_queue = <<>>
    /\ image_queue = <<>>
    /\ stop_flag = FALSE
    /\ worker_alive = [w \in WorkerNames |-> TRUE]
    /\ worker_errors = [w \in WorkerNames |-> 0]
    /\ stop_pc = StopIdle

\* no call of calculate_similarity_score is followed
NoCall == [s1 |-> NoText, s2 |-> NoText, called |-> FALSE,
           s1_norm |-> NoText, s2_norm |-> NoText,
           score |-> Percent(0), distance2 |-> 0]

\* no wait is followed
NoWait == [left |-> [w \in WorkerNames |-> 0], joining |-> 0]

\* process_plate is not running
NotProcessing == [pc |-> "idle", plate |-> Plate(NoText, 0, FALSE), canonical_plates |-> <<>>,
                  canonical_text |-> NoText, created |-> FALSE, threshold |-> 0,
                  identity |-> NoId, ts |-> 0, image_path |-> NoPath]

InitLocks ==
    /\ processing_lock = NoThread /\ clear_cache_at = NotClearing /\ pass_at = NotProcessing
    /\ db_lock = NoThread /\ stats_lock = NoThread /\ thread_at = [t \in LockThreads |-> <<>>]

InitProgram(blacklists, enableds) ==
    InitObjects(blacklists, enableds) /\ worker_wait = NoWait /\ InitLocks

InitWith(blacklists, enableds) ==
    InitProgram(blacklists, enableds) /\ similarity_call = NoCall

----------------------------------------------------------------------------
(* The pipeline: recognition callback -> intake queue -> plate worker       *)

MaxEnqueues == 4        \* calls of add_plate_to_queue explored
MaxQueuePasses == 3     \* plates the worker takes from the queue

QueuePlates == PlatesOf({AB123C, Blank}, {70}, {TRUE}) \cup PlatesOf({A8123C}, {95}, {FALSE})
Init == InitWith({{BlacklistEntry(AB128C)}}, {TRUE})
Detect == \E plate \in QueuePlates : last_enqueue.n < MaxEnqueues /\ OnPlateDetected(plate)
Work == \E dt \in {1} : passes < MaxQueuePasses /\ PlateWorker(dt, "none")
Next == Detect \/ Work
Spec == Init /\ [][Next]_vars

----------------------------------------------------------------------------
(* Identity resolution and canonical rewrite: process_plate on six-character *)
(* detections, five seconds apart                                           *)

MaxResolvePasses == 3

ResolvePlates == {Plate(AB123C, 70, TRUE), Plate(AB128C, 95, TRUE), Plate(A8123C, 95, TRUE),
                  Plate(A8123C, 70, TRUE), Plate(A8I23C, 70, TRUE), Plate(ab_123c, 95, TRUE)}
InitResolve == InitWith({{}}, {TRUE})
Resolve == \E plate \in ResolvePlates :
              passes < MaxResolvePasses /\ ProcessPlate(plate, 5)
NextResolve == Resolve
SpecResolve == InitResolve /\ [][NextResolve]_vars

----------------------------------------------------------------------------
(* The adaptive threshold: process_plate on detections of 4, 6, 8 and 10    *)
(* characters, five seconds apart                                           *)

MaxThresholdPasses == 3

ThresholdPlates == {Plate(AB12, 70, TRUE), Plate(A812, 95, TRUE),
                    Plate(AB123C, 70, TRUE), Plate(AB128C, 95, TRUE),
                    Plate(AB123456, 70, TRUE), Plate(A8X23456, 95, TRUE),
                    Plate(AB12345678, 70, TRUE), Plate(A8XX345678, 95, TRUE)}
InitThreshold == InitWith({{}}, {TRUE})
Threshold == \E plate \in ThresholdPlates :
                passes < MaxThresholdPasses /\ ProcessPlate(plate, 5)
NextThreshold == Threshold
SpecThreshold == InitThreshold /\ [][NextThreshold]_vars

----------------------------------------------------------------------------
(* Grouping: detections of one identity 5, 10 or 15 seconds apart           *)

MaxGroupPasses == 3

GroupPlates == {Plate(AB123C, 70, TRUE), Plate(AB123C, 70, FALSE), Plate(A8123C, 95, TRUE),
                Plate(AB12, 70, TRUE)}
InitGroup == InitWith({{}}, {TRUE})
Group == \E plate \in GroupPlates : \E dt \in {5, 10, 15} :
            passes < MaxGroupPasses /\ ProcessPlate(plate, dt)
NextGroup == Group
SpecGroup == InitGroup /\ [][NextGroup]_vars

----------------------------------------------------------------------------
(* Alerts: detections 1, 11 or 200 seconds apart, with a blacklist entry    *)
(* that AB123C matches (83.3) and A8123C does not (75), and the notifier    *)
(* enabled or disabled at construction                                      *)

MaxAlertPasses == 4

AlertPlates == {Plate(AB123C, 70, FALSE), Plate(A8123C, 95, TRUE)}
InitAlert == InitWith({{}, {BlacklistEntry(AB128C)}}, BOOLEAN)
Alert == \E plate \in AlertPlates : \E dt \in {1, 11, 200} :
            passes < MaxAlertPasses /\ ProcessPlate(plate, dt)
NextAlert == Alert
SpecAlert == InitAlert /\ [][NextAlert]_vars

----------------------------------------------------------------------------
(* The worker threads while the stop flag is clear: deliveries by the       *)
(* engine, iterations of every worker (failing or not) and the garbage      *)
(* collector.  An iteration of a worker is one step, taken at its loop test. *)

MaxDeliveries == 2      \* LicensePlate objects the engine delivers
MaxWorkerPasses == 1    \* plates the plate worker takes from the queue
MaxErrors == 1          \* failing iterations explored
MaxReports == 1         \* daily reports the telegram worker sends

WorkerPlates == PlatesOf({AB123C, Blank}, {70}, {TRUE})
InitWorkers == InitWith({{}}, {TRUE})
Deliver == \E plate \in WorkerPlates :
              Len(plate_handles) < MaxDeliveries /\ OnPlateDetected(plate)
Intake == \E fault \in {"none", "extract", "worker"} :
             /\ passes < MaxWorkerPasses
             /\ fault = "worker" => Errors < MaxErrors
             /\ PlateWorker(1, fault)
Notify == \E failed \in BOOLEAN :
             /\ failed => Errors < MaxErrors
             /\ Len(telegram_log) < MaxReports
             /\ TelegramWorker(failed)
Persist == \E failed \in BOOLEAN :
              (failed => Errors < MaxErrors) /\ DatabaseWorker(failed)
Idle == \E w \in WorkerNames : IdleWorker(w)
Housekeep == \E failed \in BOOLEAN :
                (failed => Errors < MaxErrors) /\ CleanupWorker(failed)
Report == \E failed \in BOOLEAN :
             (failed => Errors < MaxErrors) /\ StatisticsWorker(failed)
Collect == \E n \in 1..MaxDeliveries : Finalize(n)
NextWorkers == Deliver \/ Intake \/ Notify \/ Persist \/ Idle \/ Housekeep \/ Report
               \/ Collect
SpecWorkers == InitWorkers /\ [][NextWorkers]_vars

----------------------------------------------------------------------------
(* Shutdown: stop_all_workers called once while plates arrive and the       *)
(* workers run.  A worker thread returns at its next loop test, whenever    *)
(* that comes: nothing obliges it to.  The thread that called               *)
(* stop_all_workers keeps running: none of its statements blocks for longer *)
(* than the join timeout.                                                   *)

MaxStopDeliveries == 2  \* LicensePlate objects the engine delivers
MaxStopPasses == 1      \* plates the plate worker takes from the queue

StopPlates == PlatesOf({AB123C}, {70}, {TRUE})
InitShutdown == InitWith({{}}, {TRUE})
DeliverAny == \E plate \in StopPlates :
                 Len(plate_handles) < MaxStopDeliveries /\ OnPlateDetected(plate)
IntakeAny == passes < MaxStopPasses /\ PlateWorker(1, "none")
Produce == CleanupWorker(FALSE) \/ StatisticsWorker(FALSE)
Return == \E w \in WorkerNames : WorkerReturns(w)
StopAllWorkers == StopFlagSet \/ DrainPlateQueue \/ DrainOtherQueues \/ JoinWorker
NextShutdown == DeliverAny \/ IntakeAny \/ Produce \/ Return \/ StopAllWorkers
SpecShutdown == /\ InitShutdown /\ [][NextShutdown]_vars
                /\ WF_vars(DrainPlateQueue) /\ WF_vars(DrainOtherQueues)
                /\ WF_vars(JoinWorker)

----------------------------------------------------------------------------
(* The canonical rewrite inside add_plate_detection: identities are created *)
(* and detections added five seconds apart; a statement of the rewrite may  *)
(* raise (disk full, I/O error)                                             *)

MaxRewriteCalls == 4     \* calls of create_canonical_plate and add_plate_detection

\* calls made so far: each comes five seconds after the last
RewriteCalls == (now - 1000) \div 5

RewriteTexts == {AB123C, A8123C, A8I23C}
InitRewrite == InitWith({{}}, {TRUE})

\* DatabaseManager.create_canonical_plate called with a new text
CreateCanonical(plate_text, confidence) ==
    /\ get_plate_info(Db, plate_text) = {}
    /\ now' = now + 5
    /\ recognized_plates' =
          create_canonical_plate(Db, plate_text, "AZ", confidence, now + 5).recognized_plates
    /\ UNCHANGED <<plate_queue, queued_handles, plate_handles, last_enqueue, similarity_call, worker_wait, lock_vars,
                   original_detections, plate_variants, blacklist_plates,
                   blacklist_detections, db_seq, blacklist_cache,
                   suspicious_alert_times, recent_plates, telegram, telegram_log,
                   last_pass, passes, thread_vars>>

\* DatabaseManager.add_plate_detection called for an identity of the store
AddPlateDetection(canonical_text, raw_text, confidence, failing) ==
    /\ get_plate_info(Db, canonical_text) # {}
    /\ now' = now + 5
    /\ \E db2 \in add_plate_detection_failing(Db, canonical_text, raw_text, confidence,
                                               now + 5, NoPath, failing) :
          /\ recognized_plates' = db2.recognized_plates
          /\ original_detections' = db2.original_detections
          /\ plate_variants' = db2.plate_variants
          /\ db_seq' = db2.seq
    /\ UNCHANGED <<plate_queue, queued_handles, plate_handles, last_enqueue, similarity_call, worker_wait, lock_vars,
                   blacklist_plates, blacklist_detections, blacklist_cache,
                   suspicious_alert_times, recent_plates, telegram, telegram_log,
                   last_pass, passes, thread_vars>>

Create == \E plate_text \in RewriteTexts : \E confidence \in {70} :
             /\ RewriteCalls < MaxRewriteCalls
             /\ CreateCanonical(plate_text, confidence)
AddDetection == \E canonical_text \in RewriteTexts : \E raw_text \in RewriteTexts :
                   \E confidence \in {70, 95} : \E failing \in 0..3 :
                      /\ RewriteCalls < MaxRewriteCalls
                      /\ AddPlateDetection(canonical_text, raw_text, confidence, failing)
NextRewrite == Create \/ AddDetection
SpecRewrite == InitRewrite /\ [][NextRewrite]_vars

----------------------------------------------------------------------------
(* Retention: detections five seconds apart, edits of the blacklist, waits  *)
(* longer than the retention horizon, and the hourly cleanup that the       *)
(* cleanup worker queues and the database worker runs                       *)

MaxRetentionPasses == 2     \* calls of process_plate
MaxLongWaits == 1           \* waits longer than the retention horizon

LongWait == (days_to_keep + 1) * 86400
LongWaits == now \div LongWait

RetentionPlates == {Plate(AB123C, 70, TRUE), Plate(A8123C, 95, TRUE), Plate(AB12, 70, TRUE)}
InitRetention == InitWith({{}}, {TRUE})

\* DatabaseManager.add_to_blacklist / remove_from_blacklist, called from the
\* blacklist dialog
AddToBlacklist(plate_text) ==
    /\ blacklist_plates' = add_to_blacklist(Db, BlacklistEntry(plate_text)).blacklist_plates
    /\ recognized_plates' = add_to_blacklist(Db, BlacklistEntry(plate_text)).recognized_plates
    /\ UNCHANGED <<now, plate_queue, queued_handles, plate_handles, last_enqueue, similarity_call, worker_wait, lock_vars,
                   original_detections, plate_variants, blacklist_detections, db_seq,
                   blacklist_cache, suspicious_alert_times, recent_plates, telegram,
                   telegram_log, last_pass, passes, thread_vars>>

RemoveFromBlacklist(plate_text) ==
    /\ blacklist_plates' = remove_from_blacklist(Db, plate_text).blacklist_plates
    /\ recognized_plates' = remove_from_blacklist(Db, plate_text).recognized_plates
    /\ UNCHANGED <<now, plate_queue, queued_handles, plate_handles, last_enqueue, similarity_call, worker_wait, lock_vars,
                   original_detections, plate_variants, blacklist_detections, db_seq,
                   blacklist_cache, suspicious_alert_times, recent_plates, telegram,
                   telegram_log, last_pass, passes, thread_vars>>

Detection == \E plate \in RetentionPlates :
                passes < MaxRetentionPasses /\ ProcessPlate(plate, 5)
EditBlacklist == \E plate_text \in {A8123C} :
                    AddToBlacklist(plate_text) \/ RemoveFromBlacklist(plate_text)
Wait == LongWaits < MaxLongWaits /\ TimePasses(LongWait)
QueueCleanup == CleanupWorker(FALSE)
RunCleanup == DatabaseWorker(FALSE)
NextRetention == Detection \/ EditBlacklist \/ Wait \/ QueueCleanup \/ RunCleanup
SpecRetention == InitRetention /\ [][NextRetention]_vars

----------------------------------------------------------------------------
(* The similarity score as a function: every pair of texts of at most       *)
(* MaxTextLen characters over an alphabet with a lower-case letter (o) and  *)
(* a separator; after normalisation it holds a pair that the table lists in *)
(* both directions (O, 0), a pair it lists in one direction only (C, O) and *)
(* a pair it does not list (C, 0)                                           *)

MaxTextLen == 3

ScoreAlphabet == {"C", "0", "o", "-"}
ScoreTexts == UNION {[1..n -> ScoreAlphabet] : n \in 0..MaxTextLen}

InitScore ==
    /\ InitProgram({{}}, {TRUE})
    /\ similarity_call \in {[NoCall EXCEPT !.s1 = s1, !.s2 = s2] :
                               s1 \in ScoreTexts, s2 \in ScoreTexts}

\* calculate_similarity_score(s1, s2) and improved_levenshtein(s1, s2) are called
CalculateSimilarity ==
    /\ ~similarity_call.called
    /\ similarity_call' =
          [similarity_call EXCEPT
              !.called = TRUE,
              !.s1_norm = normalize_plate(similarity_call.s1),
              !.s2_norm = normalize_plate(similarity_call.s2),
              !.score = calculate_similarity_score(similarity_call.s1, similarity_call.s2),
              !.distance2 = improved_levenshtein2(similarity_call.s1, similarity_call.s2)]
    /\ UNCHANGED <<now, plate_queue, queued_handles, plate_handles, last_enqueue,
                   processor_vars, thread_vars, worker_wait, lock_vars>>

NextScore == CalculateSimilarity
SpecScore == InitScore /\ [][NextScore]_vars

----------------------------------------------------------------------------
(* The substitution cost as a function: every pair of one-character texts   *)
(* over the digits and the capital letters; the distance of two different   *)
(* one-character texts is the cost of substituting one for the other        *)

CostAlphabet == {"0","1","2","3","4","5","6","7","8","9",
                 "A","B","C","D","E","F","G","H","I","J","K","L","M",
                 "N","O","P","Q","R","S","T","U","V","W","X","Y","Z"}

InitCost ==
    /\ InitProgram({{}}, {TRUE})
    /\ similarity_call \in {[NoCall EXCEPT !.s1 = <<char1>>, !.s2 = <<char2>>] :
                               char1 \in CostAlphabet, char2 \in CostAlphabet}

NextCost == CalculateSimilarity
SpecCost == InitCost /\ [][NextCost]_vars

----------------------------------------------------------------------------
(* Normalisation as a function: every text of at most MaxNormLen characters *)
(* over a lower-case letter, a capital letter, a digit and one character    *)
(* for each member of the class the regular expression removes, paired with *)
(* every text over one letter in both cases and a separator; and the pair   *)
(* of texts the documentation gives                                         *)

MaxNormLen == 2

NormalizeAlphabet == {"a", "Z", "1"} \cup SeparatorChars
NormalizeTexts == UNION {[1..n -> NormalizeAlphabet] : n \in 0..MaxNormLen}
RespelledTexts == UNION {[1..n -> {"a", "A", "-"}] : n \in 0..MaxNormLen}

AZ_123_AB == <<"A","Z","-","1","2","3"," ","A","B">>
az123ab == <<"a","z","1","2","3","a","b">>

InitNormalize ==
    /\ InitProgram({{}}, {TRUE})
    /\ similarity_call \in
          {[NoCall EXCEPT !.s1 = s1, !.s2 = s2] :
              s1 \in NormalizeTexts, s2 \in RespelledTexts}
          \cup {[NoCall EXCEPT !.s1 = AZ_123_AB, !.s2 = az123ab]}

NextNormalize == CalculateSimilarity
SpecNormalize == InitNormalize /\ [][NextNormalize]_vars

----------------------------------------------------------------------------
(* Passes during which store methods raise: every single method, all of     *)
(* them together, or none                                                    *)

MaxFailingPasses == 2

FailingPlates == {Plate(AB123C, 70, TRUE), Plate(A8123C, 95, TRUE)}
Failures == {{}} \cup {{method} : method \in StoreMethods} \cup {StoreMethods}
InitFailing == InitWith({{BlacklistEntry(AB128C)}}, {TRUE})
PassFailing == \E plate \in FailingPlates : \E dt \in {1, 11} : \E failing \in Failures :
                  passes < MaxFailingPasses /\ ProcessPlateFailing(plate, dt, failing)
NextFailing == PassFailing
SpecFailing == InitFailing /\ [][NextFailing]_vars

----------------------------------------------------------------------------
(* The order of the detections of one identity: the engine delivers, the    *)
(* plate worker processes, the other workers run in between                 *)

MaxOrderDeliveries == 2     \* LicensePlate objects the engine delivers
MaxOrderPasses == 2         \* plates the plate worker takes from the queue

OrderPlates == {Plate(AB123C, 70, TRUE), Plate(A8123C, 95, TRUE)}
InitOrder == InitWith({{}}, {TRUE})
Arrive == \E plate \in OrderPlates :
             Len(plate_handles) < MaxOrderDeliveries /\ OnPlateDetected(plate)
Process == \E dt \in {1, 11} : passes < MaxOrderPasses /\ PlateWorker(dt, "none")
Send == Len(telegram_log) < MaxReports /\ TelegramWorker(FALSE)
Store == DatabaseWorker(FALSE)
Sweep == CleanupWorker(FALSE)
Digest == StatisticsWorker(FALSE)
NextOrder == Arrive \/ Process \/ Send \/ Store \/ Sweep \/ Digest
SpecOrder == InitOrder /\ [][NextOrder]_vars

----------------------------------------------------------------------------
(* stop_all_workers against the clock, in tenths of a second.  Every worker *)
(* stands in the wait of its loop when the stop flag is set; the drains     *)
(* take no time; time passes while a join waits.                            *)

get_timeout == 5        \* self.plate_queue.get(timeout=0.5), likewise the other queues
ui_sleep == 1           \* time.sleep(0.1) in ui_update_worker
loop_sleep == 600       \* time.sleep(60) in cleanup_worker and statistics_worker
join_timeout == 80      \* thread.join(timeout=8)

\* the longest a loop iteration of worker w waits before it tests the stop flag
WaitOf(w) ==
    IF w \in {"CleanupWorker", "StatisticsWorker"} THEN loop_sleep
    ELSE IF w = "UIUpdateWorker" THEN ui_sleep
    ELSE get_timeout

\* how much of its wait a worker may have left when the stop flag is set
InitTimed ==
    /\ InitObjects({{}}, {TRUE})
    /\ similarity_call = NoCall
    /\ InitLocks
    /\ worker_wait \in [left : {f \in [WorkerNames -> {1, get_timeout, loop_sleep}] :
                                   \A w \in WorkerNames : f[w] <= WaitOf(w)},
                        joining : {0}]

\* the wait of worker w has ended with the stop flag set: the loop test fails
WaitEnds(w) ==
    /\ worker_wait.left[w] = 0
    /\ worker_alive[w] /\ stop_flag
    /\ worker_alive' = [worker_alive EXCEPT ![w] = FALSE]
    /\ UNCHANGED <<now, plate_queue, queued_handles, plate_handles, last_enqueue,
                   similarity_call, worker_wait, lock_vars, processor_vars, telegram_queue, db_queue,
                   image_queue, stop_flag, worker_errors, stop_pc>>

\* the time to the next event: the end of a wait or of the join timeout
NextEvent ==
    LET lefts == {worker_wait.left[w] : w \in {v \in WorkerNames : worker_alive[v]}}
                 \cup {join_timeout - worker_wait.joining}
    IN CHOOSE dt \in lefts : \A other \in lefts : dt <= other

\* time passes while thread.join waits for a thread that is still alive
Elapse ==
    /\ stop_pc.at = "join"
    /\ worker_alive[Workers[stop_pc.i]]
    /\ NextEvent > 0
    /\ worker_wait' = [left |-> [w \in WorkerNames |->
                                    IF worker_alive[w] THEN worker_wait.left[w] - NextEvent
                                    ELSE worker_wait.left[w]],
                       joining |-> worker_wait.joining + NextEvent]
    /\ UNCHANGED <<now, plate_queue, queued_handles, plate_handles, last_enqueue,
                   similarity_call, lock_vars, processor_vars, thread_vars>>

\* thread.join(timeout=8) returns: the thread has returned or the timeout has passed
TimedJoin ==
    /\ stop_pc.at = "join"
    /\ ~worker_alive[Workers[stop_pc.i]] \/ worker_wait.joining = join_timeout
    /\ stop_pc' = IF stop_pc.i < Len(Workers)
                  THEN [at |-> "join", i |-> stop_pc.i + 1]
                  ELSE [at |-> "returned", i |-> 0]
    /\ worker_wait' = [worker_wait EXCEPT !.joining = 0]
    /\ UNCHANGED <<now, plate_queue, queued_handles, plate_handles, last_enqueue,
                   similarity_call, lock_vars, processor_vars, telegram_queue, db_queue,
                   image_queue, stop_flag, worker_alive, worker_errors>>

LeaveLoop == \E w \in WorkerNames : WaitEnds(w)
NextTimed == StopFlagSet \/ DrainPlateQueue \/ DrainOtherQueues \/ LeaveLoop \/ Elapse
             \/ TimedJoin
SpecTimed == InitTimed /\ [][NextTimed]_vars

----------------------------------------------------------------------------
(* The blacklist cache: lookups at several distances from the last refresh, *)
(* the blacklist edited in between                                          *)

MaxCachePasses == 3

CachePlates == {Plate(AB123C, 70, TRUE)}
InitCache == InitWith({{}, {BlacklistEntry(AB128C)}}, {TRUE})
Lookup == \E plate \in CachePlates : \E dt \in {1, 59, 60, 61} :
             passes < MaxCachePasses /\ ProcessPlate(plate, dt)
EditEntries == \E plate_text \in {AB128C} :
                  AddToBlacklist(plate_text) \/ RemoveFromBlacklist(plate_text)
NextCache == Lookup \/ EditEntries
SpecCache == InitCache /\ [][NextCache]_vars

----------------------------------------------------------------------------
(* The alert throttle map between two threads: process_plate, which holds   *)
(* processing_lock, and clear_cache, called by cleanup_worker, statement by *)
(* statement                                                                *)

MaxThrottlePasses == 4

\* a quiet time longer than the hour after which clear_cache drops an entry
ThrottleWait == 3600 + 100
ThrottlePlates == {Plate(AB123C, 70, TRUE)}
InitThrottle == InitWith({{}}, {TRUE})

\* the keys clear_cache finds older than one hour
OldPlates(times, current_time) ==
    {plate_text \in DOMAIN times : current_time - times[plate_text] > 3600}

\* plate_worker enters "with self.processing_lock:"
EnterProcessing ==
    /\ processing_lock = NoThread
    /\ processing_lock' = "PlateWorker"
    /\ UNCHANGED <<now, plate_queue, queued_handles, plate_handles, last_enqueue,
                   similarity_call, worker_wait, clear_cache_at, store_locks, pass_at, processor_vars, thread_vars>>

\* the body of process_plate runs and the lock is released
ProcessAndRelease(plate, dt) ==
    /\ processing_lock = "PlateWorker"
    /\ ProcessPlateLocked(plate, dt)
    /\ processing_lock' = NoThread
    /\ UNCHANGED <<clear_cache_at, store_locks, pass_at>>

\* cleanup_worker, hourly cleanup due: the put on db_queue, then clear_cache
\* up to the start of its loop over suspicious_alert_times.items()
ClearCacheBegin ==
    /\ Running("CleanupWorker")
    /\ clear_cache_at.pc = "idle"
    /\ Len(db_queue) < OtherQueueSize
    /\ db_queue' = Append(db_queue, [op |-> "cleanup", data |-> days_to_keep])
    /\ recent_plates' = clear_cache(now).recent
    /\ clear_cache_at' = [pc |-> "scan", current_time |-> now,
                          seen |-> suspicious_alert_times, old_plates |-> {}]
    /\ UNCHANGED <<now, plate_queue, queued_handles, plate_handles, last_enqueue,
                   similarity_call, worker_wait, processing_lock, pass_at, store_locks,
                   recognized_plates, original_detections, plate_variants,
                   blacklist_plates, blacklist_detections, db_seq, blacklist_cache,
                   suspicious_alert_times, telegram, telegram_log, last_pass, passes,
                   telegram_queue, image_queue, stop_flag, stop_pc,
                   worker_alive, worker_errors>>

\* the loop over suspicious_alert_times.items() ends.  A key inserted while it
\* ran makes the iterator raise RuntimeError (raised), which cleanup_worker
\* catches; an entry rewritten while it ran was read before or after the write.
ClearCacheScan(raised) ==
    /\ clear_cache_at.pc = "scan"
    /\ raised => DOMAIN suspicious_alert_times # DOMAIN clear_cache_at.seen
    /\ IF raised THEN clear_cache_at' = NotClearing
       ELSE \E old_plates \in SUBSET OldPlates(clear_cache_at.seen, clear_cache_at.current_time) :
               /\ OldPlates(suspicious_alert_times, clear_cache_at.current_time) \subseteq old_plates
               /\ clear_cache_at' = [pc |-> "delete",
                                     current_time |-> clear_cache_at.current_time,
                                     seen |-> <<>>, old_plates |-> old_plates]
    /\ IterationEnds("CleanupWorker", raised)
    /\ UNCHANGED <<now, plate_queue, queued_handles, plate_handles, last_enqueue,
                   similarity_call, worker_wait, processing_lock, pass_at, store_locks, processor_vars,
                   telegram_queue, db_queue, image_queue, stop_flag, stop_pc>>

\* for plate in old_plates: del self.suspicious_alert_times[plate]
ClearCacheDelete ==
    /\ clear_cache_at.pc = "delete"
    /\ suspicious_alert_times' =
          [plate_text \in DOMAIN suspicious_alert_times \ clear_cache_at.old_plates
              |-> suspicious_alert_times[plate_text]]
    /\ clear_cache_at' = NotClearing
    /\ UNCHANGED <<now, plate_queue, queued_handles, plate_handles, last_enqueue,
                   similarity_call, worker_wait, processing_lock, pass_at, store_locks,
                   recognized_plates, original_detections, plate_variants,
                   blacklist_plates, blacklist_detections, db_seq, blacklist_cache,
                   recent_plates, telegram, telegram_log, last_pass, passes, thread_vars>>

Enter == passes < MaxThrottlePasses /\ EnterProcessing
Pass == \E plate \in ThrottlePlates : \E dt \in {1, 200} : ProcessAndRelease(plate, dt)
Quiet == now < ThrottleWait /\ TimePasses(ThrottleWait)
Prune == ClearCacheBegin
Scan == \E raised \in BOOLEAN : ClearCacheScan(raised)
Drop == ClearCacheDelete
Drain == DatabaseWorker(FALSE)
NextThrottle == Enter \/ Pass \/ Quiet \/ Prune \/ Scan \/ Drop \/ Drain
SpecThrottle == InitThrottle /\ [][NextThrottle]_vars

----------------------------------------------------------------------------
(* Dwell: one plate detected again and again, the detections 1, 60, 150 or  *)
(* 200 seconds apart, so that the dwell passes two minutes, stays between   *)
(* two and three minutes, or passes three                                   *)

MaxDwellPasses == 4

DwellPlates == {Plate(AB123C, 70, TRUE)}
InitDwell == InitWith({{}}, {TRUE})
Dwell == \E plate \in DwellPlates : \E dt \in {1, 60, 150, 200} :
            passes < MaxDwellPasses /\ ProcessPlate(plate, dt)
NextDwell == Dwell
SpecDwell == InitDwell /\ [][NextDwell]_vars

----------------------------------------------------------------------------
(* Identities side by side: texts one confusable character apart, reported  *)
(* in upper and lower case and with a separator, every text at a confidence *)
(* of its own (no two variants tie), with retention sweeps in between       *)

MaxDistinctPasses == 3

DistinctPlates == {Plate(AB123C, 70, TRUE), Plate(A8I23C, 80, TRUE),
                   Plate(A8123C, 95, TRUE), Plate(ab_123c, 90, TRUE)}
InitDistinct == InitWith({{}}, {TRUE})
Observe == \E plate \in DistinctPlates :
              passes < MaxDistinctPasses /\ ProcessPlate(plate, 5)
NextDistinct == Observe \/ Wait \/ QueueCleanup \/ RunCleanup
SpecDistinct == InitDistinct /\ [][NextDistinct]_vars

----------------------------------------------------------------------------
(* A pass and the retention sweep side by side: process_plate one store     *)
(* call at a time (each call takes db_lock for itself), cleanup_old_data    *)
(* run by database_worker in between                                        *)

MaxSweepPasses == 2

SweepPlates == {Plate(AB123C, 70, TRUE)}
InitSweep == InitWith({{}}, {TRUE})

\* the tables after a store call
StoreBecomes(db) ==
    /\ recognized_plates' = db.recognized_plates
    /\ original_detections' = db.original_detections
    /\ plate_variants' = db.plate_variants
    /\ blacklist_plates' = db.blacklist_plates
    /\ blacklist_detections' = db.blacklist_detections
    /\ db_seq' = db.seq

\* process_plate takes processing_lock, reads the plate and fetches the
\* canonical texts (get_canonical_plates)
PassFetch(plate, dt) ==
    /\ pass_at.pc = "idle" /\ processing_lock = NoThread
    /\ ExtractText(plate.text) # <<>>
    /\ now' = now + dt
    /\ processing_lock' = "PlateWorker"
    /\ \E canonical_plates \in get_canonical_plates(Db) :
          pass_at' = [NotProcessing EXCEPT !.pc = "fetched", !.plate = plate,
                                           !.canonical_plates = canonical_plates,
                                           !.ts = now + dt]
    /\ UNCHANGED <<plate_queue, queued_handles, plate_handles, last_enqueue, similarity_call,
                   worker_wait, clear_cache_at, store_locks, processor_vars, thread_vars>>

\* the rest of _find_or_create_canonical (create_canonical_plate when nothing
\* matches) and _save_plate_image
PassResolve ==
    /\ pass_at.pc = "fetched"
    /\ LET res == find_or_create_canonical(Db, pass_at.canonical_plates,
                                           ExtractText(pass_at.plate.text), pass_at.plate,
                                           pass_at.ts)
       IN /\ StoreBecomes(res.db)
          /\ pass_at' = [pass_at EXCEPT
                           !.pc = "resolved",
                           !.canonical_text = res.canonical_text,
                           !.created = res.created,
                           !.threshold = res.threshold,
                           !.identity = IdentityOf(res.db, res.canonical_text),
                           !.image_path = save_plate_image(pass_at.plate, pass_at.ts,
                                                           res.canonical_text)]
    /\ UNCHANGED <<now, plate_queue, queued_handles, plate_handles, last_enqueue,
                   similarity_call, worker_wait, processing_lock, clear_cache_at, store_locks,
                   blacklist_cache, suspicious_alert_times, recent_plates, telegram,
                   telegram_log, last_pass, passes, thread_vars>>

\* _update_database: update_canonical_plate
PassUpdate ==
    /\ pass_at.pc = "resolved"
    /\ StoreBecomes(update_canonical_plate(Db, pass_at.canonical_text,
                                           pass_at.plate.confidence, pass_at.ts,
                                           pass_at.image_path))
    /\ pass_at' = [pass_at EXCEPT !.pc = "updated"]
    /\ UNCHANGED <<now, plate_queue, queued_handles, plate_handles, last_enqueue,
                   similarity_call, worker_wait, processing_lock, clear_cache_at, store_locks,
                   blacklist_cache, suspicious_alert_times, recent_plates, telegram,
                   telegram_log, last_pass, passes, thread_vars>>

\* _update_database: add_plate_detection
PassAdd ==
    /\ pass_at.pc = "updated"
    /\ \E db \in add_plate_detection(Db, pass_at.canonical_text, pass_at.plate.text,
                                     pass_at.plate.confidence, pass_at.ts,
                                     pass_at.image_path) :
          StoreBecomes(db)
    /\ pass_at' = [pass_at EXCEPT !.pc = "added"]
    /\ UNCHANGED <<now, plate_queue, queued_handles, plate_handles, last_enqueue,
                   similarity_call, worker_wait, processing_lock, clear_cache_at, store_locks,
                   blacklist_cache, suspicious_alert_times, recent_plates, telegram,
                   telegram_log, last_pass, passes, thread_vars>>

\* what the rest of the pass can leave behind: the suspicious-presence flag,
\* _check_alerts and _update_cache
PassRest ==
    LET db2 == UpdateSuspiciousPresence(Db, pass_at.canonical_text, pass_at.ts)
    IN {[ps |-> check_alerts([db |-> db2, tg |-> telegram, log |-> telegram_log,
                              times |-> suspicious_alert_times],
                             cache2.entries, pass_at.canonical_text, pass_at.identity,
                             pass_at.ts, pass_at.image_path),
         cache |-> cache2,
         recent |-> update_cache(recent_plates, pass_at.canonical_text, pass_at.plate,
                                 pass_at.ts),
         pass |-> [raw |-> pass_at.plate.text, text |-> ExtractText(pass_at.plate.text),
                   canonical_plates |-> pass_at.canonical_plates,
                   threshold |-> pass_at.threshold, created |-> pass_at.created,
                   result |-> pass_at.canonical_text, identity |-> pass_at.identity,
                   ts |-> pass_at.ts, image_path |-> pass_at.image_path,
                   failing |-> {}]] :
           cache2 \in get_blacklist_cached(db2, blacklist_cache, pass_at.ts)}

\* the pass ends: the rest runs, the plate is destroyed, processing_lock released
PassReturn ==
    /\ pass_at.pc = "added"
    /\ passes' = passes + 1
    /\ \E o \in PassRest :
          /\ Becomes(o)
          /\ plate_handles' = Append(plate_handles,
                                     DestroyedByConsumer(NewLicensePlate, FateOf(o.pass, "none")))
    /\ processing_lock' = NoThread
    /\ pass_at' = NotProcessing
    /\ UNCHANGED <<now, plate_queue, queued_handles, last_enqueue, similarity_call,
                   worker_wait, clear_cache_at, store_locks, thread_vars>>

Fetch == \E plate \in SweepPlates :
            passes < MaxSweepPasses /\ PassFetch(plate, 5)
\* the long waits fall between passes: a pass takes far less than a day
BetweenPasses == pass_at.pc = "idle" /\ Wait
NextSweep == Fetch \/ PassResolve \/ PassUpdate \/ PassAdd \/ PassReturn
             \/ BetweenPasses \/ QueueCleanup \/ RunCleanup
SpecSweep == InitSweep /\ [][NextSweep]_vars

----------------------------------------------------------------------------
(* Detections 5 or 12 seconds apart, then a wait that puts the retention    *)
(* horizon of the next sweep between two detections of one group            *)

MaxHorizonPasses == 3

HorizonPlates == {Plate(AB123C, 70, TRUE)}
InitHorizon == InitWith({{}}, {TRUE})

\* three seconds short of the retention period
HorizonWait == days_to_keep * 86400 - 3

Regroup == \E plate \in HorizonPlates : \E dt \in {5, 12} :
              passes < MaxHorizonPasses /\ ProcessPlate(plate, dt)
ReachHorizon == now < HorizonWait /\ TimePasses(HorizonWait)
NextHorizon == Regroup \/ ReachHorizon \/ QueueCleanup \/ RunCleanup
SpecHorizon == InitHorizon /\ [][NextHorizon]_vars

----------------------------------------------------------------------------
(* Locks: which lock each method takes for its body and which methods it    *)
(* calls inside; the threads run their calls one lock operation at a time   *)

NoLock == "no lock"

\* the DatabaseManager methods whose body is `with self.db_lock:`
DbLockMethods == {"get_canonical_plates", "create_canonical_plate", "update_canonical_plate",
                  "add_plate_detection", "get_plate_info", "check_suspicious_presence",
                  "_get_blacklist_cached", "log_blacklist_detection", "mark_as_suspicious",
                  "cleanup_old_data", "save_settings", "get_statistics",
                  "add_to_blacklist", "remove_from_blacklist", "search_plates"}

\* the `with self.stats_lock:` blocks of WorkerManager, by what they touch
StatsBlocks == {"plates_processed", "db_operations", "errors", "worker_stats.copy",
                "get_worker_stats"}

\* a faulty _update_plate_variant: it takes db_lock for itself, as the public
\* store methods do
LockOf_variant_locked(method) ==
    CASE method = "process_plate" -> "processing_lock"
      [] method \in DbLockMethods \cup {"_update_plate_variant"} -> "db_lock"
      [] method \in StatsBlocks -> "stats_lock"
      [] OTHER -> NoLock

\* the lock a method takes around its body
LockOf(method) ==
    CASE method = "process_plate" -> "processing_lock"
      [] method \in DbLockMethods -> "db_lock"
      [] method \in StatsBlocks -> "stats_lock"
      [] OTHER -> NoLock

\* the lock-taking methods a method calls from inside its body, in order (the
\* longest path)
CallsInside(method) ==
    CASE method = "process_plate" ->
            <<"get_canonical_plates", "create_canonical_plate", "update_canonical_plate",
              "add_plate_detection", "get_plate_info", "check_suspicious_presence",
              "check_blacklist_fuzzy", "log_blacklist_detection", "get_plate_info",
              "mark_as_suspicious">>
      [] method = "add_plate_detection" -> <<"_update_plate_variant">>
      [] method = "_update_plate_variant" -> <<"_check_update_canonical">>
      [] method = "check_blacklist_fuzzy" -> <<"_get_blacklist_cached">>
      [] OTHER -> <<>>

RECURSIVE LockSteps(_)
RECURSIVE LockStepsOfAll(_)

\* the lock operations of one call of the method
LockSteps(method) ==
    LET inside == LockStepsOfAll(CallsInside(method))
    IN IF LockOf(method) = NoLock
       THEN inside
       ELSE <<[op |-> "acquire", lock |-> LockOf(method)]>> \o inside
            \o <<[op |-> "release", lock |-> LockOf(method)]>>

\* the lock operations of the calls, one after the other
LockStepsOfAll(methods) ==
    IF methods = <<>> THEN <<>>
    ELSE LockSteps(Head(methods)) \o LockStepsOfAll(Tail(methods))

\* what one iteration (or one GUI handler) of the thread calls
CallsOf(thread) ==
    CASE thread = "PlateWorker" -> {<<"process_plate", "plates_processed">>}
      [] thread = "DatabaseWorker" -> {<<"cleanup_old_data", "db_operations">>,
                                       <<"save_settings", "db_operations">>}
      [] thread = "CleanupWorker" -> {<<"clear_cache", "errors">>}
      [] thread = "StatisticsWorker" -> {<<"worker_stats.copy", "get_statistics">>}
      [] thread = "MainThread" -> {<<"add_to_blacklist">>, <<"remove_from_blacklist">>,
                                   <<"search_plates">>, <<"get_worker_stats">>}

\* the thread that holds the lock
Holder(lock) ==
    CASE lock = "processing_lock" -> processing_lock
      [] lock = "db_lock" -> db_lock
      [] lock = "stats_lock" -> stats_lock

\* the lock passes to the thread
HolderBecomes(lock, thread) ==
    /\ processing_lock' = IF lock = "processing_lock" THEN thread ELSE processing_lock
    /\ db_lock' = IF lock = "db_lock" THEN thread ELSE db_lock
    /\ stats_lock' = IF lock = "stats_lock" THEN thread ELSE stats_lock

\* the thread starts an iteration
StartCalls(thread, methods) ==
    /\ thread_at[thread] = <<>>
    /\ thread_at' = [thread_at EXCEPT ![thread] = LockStepsOfAll(methods)]
    /\ UNCHANGED <<now, plate_queue, queued_handles, plate_handles, last_enqueue,
                   similarity_call, worker_wait, processing_lock, clear_cache_at, pass_at,
                   db_lock, stats_lock, processor_vars, thread_vars>>

\* Lock.acquire (entering a with-block): the thread gets the lock when no
\* thread holds it, itself included
Acquire(thread) ==
    /\ thread_at[thread] # <<>>
    /\ Head(thread_at[thread]).op = "acquire"
    /\ Holder(Head(thread_at[thread]).lock) = NoThread
    /\ HolderBecomes(Head(thread_at[thread]).lock, thread)
    /\ thread_at' = [thread_at EXCEPT ![thread] = Tail(@)]
    /\ UNCHANGED <<now, plate_queue, queued_handles, plate_handles, last_enqueue,
                   similarity_call, worker_wait, clear_cache_at, pass_at,
                   processor_vars, thread_vars>>

\* Lock.release (leaving the with-block, by its end, a return or an exception)
Release(thread) ==
    /\ thread_at[thread] # <<>>
    /\ Head(thread_at[thread]).op = "release"
    /\ HolderBecomes(Head(thread_at[thread]).lock, NoThread)
    /\ thread_at' = [thread_at EXCEPT ![thread] = Tail(@)]
    /\ UNCHANGED <<now, plate_queue, queued_handles, plate_handles, last_enqueue,
                   similarity_call, worker_wait, clear_cache_at, pass_at,
                   processor_vars, thread_vars>>

InitLocking == InitWith({{}}, {TRUE})

Start == \E thread \in LockThreads : \E methods \in CallsOf(thread) :
            StartCalls(thread, methods)
Take == \E thread \in LockThreads : Acquire(thread)
Leave == \E thread \in LockThreads : Release(thread)
NextLocking == Start \/ Take \/ Leave

\* a thread inside a with-block goes on, and a thread that waits for a lock
\* that is free again and again gets it
FairLocking ==
    \A thread \in LockThreads :
       WF_vars(Release(thread)) /\ SF_vars(Acquire(thread))

SpecLocking == InitLocking /\ [][NextLocking]_vars /\ FairLocking

----------------------------------------------------------------------------
(* Properties                                                               *)

\* a step that is one call of add_plate_to_queue / of process_plate
EnqueueStep == last_enqueue'.n = last_enqueue.n + 1
PassStep == passes' = passes + 1

\* C1: add_plate_to_queue returns at once; on a full intake queue it returns
\* False, the new item is discarded and the queued items are unchanged
\* (otherwise the item is appended and it returns True); the queue never
\* holds more than its capacity.
C1_DropNewestOnFull ==
    /\ [](Len(plate_queue) <= PlateQueueSize)
    /\ [][EnqueueStep =>
            IF Len(plate_queue) >= PlateQueueSize
            THEN ~last_enqueue'.returned /\ plate_queue' = plate_queue
            ELSE last_enqueue'.returned
                 /\ plate_queue' = Append(plate_queue, last_enqueue'.plate)]_vars

\* a full queue has just refused a plate that differs from the queued ones
C1_Witness ==
    /\ Len(plate_queue) = PlateQueueSize
    /\ ~last_enqueue.returned
    /\ \A i \in 1..Len(plate_queue) : plate_queue[i] # last_enqueue.plate

IsBlacklistAlert(e) == e.kind = "blacklist"
IsSuspiciousAlert(e) == e.kind = "suspicious"
Delivered(e) == e.text_posted \/ e.photo_posted

\* the detection of this pass qualifies against the blacklist cache it read
QualifiesBlacklist ==
    /\ last_pass'.result # NoText
    /\ \E i \in 1..Len(blacklist_cache'.entries) :
          ScoreGE(calculate_similarity_score(last_pass'.result,
                                             blacklist_cache'.entries[i].plate_text),
                  Percent(80))

NewLogEntries == SubSeq(telegram_log', Len(telegram_log) + 1, Len(telegram_log'))

\* C2: every resolved detection whose canonical text scores >= 80 against a
\* cached blacklist entry hands exactly one blacklist alert to the notifier
\* (posted whenever the notifier is enabled, whatever the throttle map and
\* the notifier's own rate limiter hold) and appends exactly one AlertRecord.
C2_BlacklistNeverThrottled ==
    [][PassStep /\ QualifiesBlacklist =>
         /\ Len(SelectSeq(NewLogEntries, IsBlacklistAlert)) = 1
         /\ \A i \in 1..Len(NewLogEntries) :
               IsBlacklistAlert(NewLogEntries[i]) =>
                  /\ NewLogEntries[i].plate = last_pass'.result
                  /\ NewLogEntries[i].ts = last_pass'.ts
                  /\ NewLogEntries[i].text_posted = telegram.enabled
         /\ Len(blacklist_detections') = Len(blacklist_detections) + 1
         /\ blacklist_detections'[Len(blacklist_detections')].detected_plate = last_pass'.result
         /\ blacklist_detections'[Len(blacklist_detections')].detection_ts = last_pass'.ts]_vars

\* two blacklist alerts for one identity were posted one second apart while
\* the throttle map held an entry
C2_Witness ==
    /\ suspicious_alert_times # <<>>
    /\ Len(blacklist_detections) >= 2
    /\ \E i, j \in 1..Len(telegram_log) :
          /\ i < j
          /\ IsBlacklistAlert(telegram_log[i]) /\ IsBlacklistAlert(telegram_log[j])
          /\ telegram_log[i].identity = telegram_log[j].identity
          /\ telegram_log[j].ts - telegram_log[i].ts = 1
          /\ telegram_log[i].text_posted /\ telegram_log[j].text_posted

\* C3 (as claimed): for one identity, followed across rewrites of its
\* canonical text, no two suspicious-dwell alerts are sent (and delivered)
\* less than the 10 s cooldown apart.
C3_ThrottledPerIdentity ==
    \A i, j \in 1..Len(telegram_log) :
        (/\ i < j
         /\ IsSuspiciousAlert(telegram_log[i]) /\ IsSuspiciousAlert(telegram_log[j])
         /\ Delivered(telegram_log[i]) /\ Delivered(telegram_log[j])
         /\ telegram_log[i].identity = telegram_log[j].identity)
        => telegram_log[j].ts - telegram_log[i].ts >= 10

\* the row of the identity the pass resolved to, after the pass
ResolvedRows == {p \in recognized_plates' : p.rowid = last_pass'.identity}

\* the pass resolved to an identity that already had a suspicious alert, all
\* of them at least the cooldown ago, and its dwell exceeds the threshold
DueAgain ==
    /\ last_pass'.result # NoText
    /\ \E i \in 1..Len(telegram_log) :
          IsSuspiciousAlert(telegram_log[i]) /\ telegram_log[i].identity = last_pass'.identity
    /\ \A i \in 1..Len(telegram_log) :
          (IsSuspiciousAlert(telegram_log[i]) /\ telegram_log[i].identity = last_pass'.identity)
             => last_pass'.ts - telegram_log[i].ts >= 10
    /\ \E p \in ResolvedRows : (last_pass'.ts - p.first_appearance_ts) \div 60 > 2

\* C4 (as claimed, for an enabled notifier and a pass that does not rewrite
\* the canonical text): once the cooldown has elapsed, the next
\* dwell-qualifying detection of the identity produces another
\* suspicious-dwell alert that is delivered to the external notifier.
C4_DeliveredAfterCooldown ==
    [][(/\ PassStep /\ DueAgain
        /\ telegram.enabled
        /\ \E p \in ResolvedRows : p.plate_text_canonical = last_pass'.result)
       => \E i \in 1..Len(NewLogEntries) :
             /\ IsSuspiciousAlert(NewLogEntries[i])
             /\ NewLogEntries[i].identity = last_pass'.identity
             /\ Delivered(NewLogEntries[i])]_vars

VariantsOf(canonical_text) ==
    {v \in plate_variants : v.canonical_plate_ref = canonical_text}

\* C5: after every processing pass, each identity's canonical text is the
\* text of one of its variants whose max_confidence is the maximum among
\* the identity's variants.
C5_CanonicalIsBestVariant ==
    \A p \in recognized_plates :
        \E v \in VariantsOf(p.plate_text_canonical) :
            /\ v.variant_text = p.plate_text_canonical
            /\ \A w \in VariantsOf(p.plate_text_canonical) :
                  w.max_confidence <= v.max_confidence

\* an identity whose canonical text was rewritten to a later, better variant
C5_Witness ==
    \E p \in recognized_plates :
        \E v, w \in VariantsOf(p.plate_text_canonical) :
            /\ v.id < w.id
            /\ v.max_confidence < w.max_confidence
            /\ w.variant_text = p.plate_text_canonical
            /\ \E d \in original_detections :
                  /\ d.canonical_plate_text_ref = p.plate_text_canonical
                  /\ d.raw_detected_text = v.variant_text

\* the store after exactly the two detections first@c1 then second@c2
AfterTwo(first, c1, second, c2) ==
    /\ passes = 2
    /\ \E d1, d2 \in original_detections :
          /\ d1.id = 1 /\ d1.raw_detected_text = first /\ d1.confidence = c1
          /\ d2.id = 2 /\ d2.raw_detected_text = second /\ d2.confidence = c2

OneIdentity(text, confidence) ==
    /\ Cardinality(recognized_plates) = 1
    /\ \A p \in recognized_plates :
          p.plate_text_canonical = text /\ p.highest_confidence_achieved = confidence
    /\ \A d \in original_detections : d.canonical_plate_text_ref = text

\* C6 (as claimed): after "AB123C"@70 and then "AB128C"@95 there is one
\* identity with canonical text "AB128C" and highest confidence 95, and the
\* earlier record is referenced under "AB128C".
C6_RewriteScenario ==
    AfterTwo(AB123C, 70, AB128C, 95) => OneIdentity(AB128C, 95)

\* C6 (amended): "AB128C" scores 83.3 against "AB123C", below its threshold
\* 85, and becomes a second identity; a detection that does reach its
\* threshold, "A8123C"@95 (91.7), resolves to the identity of "AB123C",
\* whose canonical text becomes "A8123C" with highest confidence 95 and
\* whose earlier record is then referenced under "A8123C".
C6_RewriteScenarioAmended ==
    /\ AfterTwo(AB123C, 70, AB128C, 95) =>
          /\ {p.plate_text_canonical : p \in recognized_plates} = {AB123C, AB128C}
          /\ \E d \in original_detections : d.id = 1 /\ d.canonical_plate_text_ref = AB123C
    /\ AfterTwo(AB123C, 70, A8123C, 95) => OneIdentity(A8123C, 95)

C6_Witness ==
    AfterTwo(AB123C, 70, A8123C, 95) /\ last_pass.result = AB123C /\ ~last_pass.created

\* the candidates the pass fetched, its detection text and its scores
Candidates == last_pass'.canonical_plates
CandidateScore(i) == calculate_similarity_score(last_pass'.text, Candidates[i])

\* the threshold table, by normalized length
ThresholdTable(n) ==
    CASE n <= 4 -> 90
      [] n \in 5..6 -> 85
      [] n \in 7..8 -> 80
      [] OTHER -> 75

Qualifying ==
    {i \in 1..Len(Candidates) :
        ScoreGE(CandidateScore(i),
                Percent(ThresholdTable(Len(normalize_plate(last_pass'.text)))))}

Rowids(plates) == {p.rowid : p \in plates}

\* C7: every pass over a non-empty detection text scores it against all
\* current canonical texts and resolves to the qualifying candidate with the
\* highest score, the first of them in iteration order on a tie, creating no
\* identity; when no candidate qualifies exactly one identity is created and
\* the pass resolves to it.  No pass ends without a resolution.
C7_ResolutionTotalAndBest ==
    [][PassStep /\ ExtractText(last_pass'.raw) # NoText =>
         /\ last_pass'.text = ExtractText(last_pass'.raw)
         /\ last_pass'.result # NoText
         /\ Len(Candidates) = Cardinality(recognized_plates)
         /\ {Candidates[i] : i \in 1..Len(Candidates)}
               = {p.plate_text_canonical : p \in recognized_plates}
         /\ IF Qualifying # {}
            THEN /\ \E i \in Qualifying :
                       /\ last_pass'.result = Candidates[i]
                       /\ \A j \in Qualifying : ScoreGE(CandidateScore(i), CandidateScore(j))
                       /\ \A j \in Qualifying :
                             j < i => ScoreGT(CandidateScore(i), CandidateScore(j))
                 /\ Rowids(recognized_plates') = Rowids(recognized_plates)
                 /\ last_pass'.identity \in Rowids(recognized_plates)
            ELSE /\ last_pass'.result = last_pass'.text
                 /\ Cardinality(recognized_plates') = Cardinality(recognized_plates) + 1
                 /\ Rowids(recognized_plates') \ Rowids(recognized_plates)
                       = {last_pass'.identity}]_vars

\* a tie: two identities score the same against the detection, above its
\* threshold, and the pass resolved to the one fetched first
C7_Witness ==
    /\ last_pass.text = A8123C
    /\ Len(last_pass.canonical_plates) = 2
    /\ {last_pass.canonical_plates[1], last_pass.canonical_plates[2]} = {AB123C, A8I23C}
    /\ ScoreEQ(calculate_similarity_score(A8123C, AB123C),
               calculate_similarity_score(A8123C, A8I23C))
    /\ ScoreGE(calculate_similarity_score(A8123C, AB123C), Percent(85))
    /\ last_pass.result = last_pass.canonical_plates[1]
    /\ last_pass.result = A8I23C
    /\ ~last_pass.created

\* C8: the threshold a pass uses is 90 / 85 / 80 / 75 for a normalized
\* length of <= 4 / 5-6 / 7-8 / >= 9, and the pass merges into an existing
\* identity only if the score against its canonical text reaches that value.
C8_AdaptiveThreshold ==
    [][PassStep /\ last_pass'.text # NoText /\ recognized_plates # {} =>
         /\ last_pass'.threshold = ThresholdTable(Len(normalize_plate(last_pass'.text)))
         /\ Rowids(recognized_plates') = Rowids(recognized_plates) =>
               /\ last_pass'.result \in {p.plate_text_canonical : p \in recognized_plates}
               /\ ScoreGE(calculate_similarity_score(last_pass'.text, last_pass'.result),
                          Percent(ThresholdTable(Len(normalize_plate(last_pass'.text)))))]_vars

\* a 10-character detection merged at a score of exactly 75, below the value
\* of every other row of the table, and its identity took over its text
C8_Witness ==
    /\ \A d \in original_detections : d.canonical_plate_text_ref = A8XX345678
    /\ last_pass.text = A8XX345678
    /\ Len(normalize_plate(last_pass.text)) = 10
    /\ last_pass.threshold = 75
    /\ ~last_pass.created
    /\ last_pass.result = AB12345678
    /\ ScoreEQ(calculate_similarity_score(A8XX345678, AB12345678), Percent(75))

\* the detection row the pass inserted
NewDetections == {d \in original_detections' : d.id \notin {e.id : e \in original_detections}}

\* the most recent ungrouped records, before the pass, of the identity the
\* pass resolved to
LatestUngroupedOfIdentity ==
    LET texts == {p.plate_text_canonical :
                     p \in {q \in recognized_plates : q.rowid = last_pass'.identity}}
        mine == {d \in original_detections :
                    d.canonical_plate_text_ref \in texts /\ ~d.is_grouped}
    IN {d \in mine : \A e \in mine : e.detection_ts <= d.detection_ts}

\* C9: the detection a pass stores is a grouped child (parent = the most
\* recent ungrouped record of the identity, no image) exactly when such a
\* record exists and lies less than 10 s back; otherwise it is standalone,
\* without a parent, and keeps the image of the pass.
C9_GroupingRule ==
    [][PassStep /\ last_pass'.text # NoText =>
         /\ Cardinality(NewDetections) = 1
         /\ \A n \in NewDetections :
               /\ n.detection_ts = last_pass'.ts
               /\ IF \E d \in LatestUngroupedOfIdentity : n.detection_ts - d.detection_ts < 10
                  THEN /\ n.is_grouped
                       /\ n.parent_detection_id \in {d.id : d \in LatestUngroupedOfIdentity}
                       /\ n.image_path = NoPath
                  ELSE /\ ~n.is_grouped
                       /\ n.parent_detection_id = NoId
                       /\ n.image_path = last_pass'.image_path]_vars

\* one identity with a child 5 s after its parent and a standalone record,
\* holding its own image, 15 s after the parent
C9_Witness ==
    \E a, b, c \in original_detections :
        /\ a.canonical_plate_text_ref = b.canonical_plate_text_ref
        /\ b.canonical_plate_text_ref = c.canonical_plate_text_ref
        /\ ~a.is_grouped
        /\ b.is_grouped /\ b.parent_detection_id = a.id
        /\ b.detection_ts - a.detection_ts = 5 /\ b.image_path = NoPath
        /\ ~c.is_grouped /\ c.parent_detection_id = NoId
        /\ c.detection_ts - a.detection_ts = 15 /\ c.time_diff_seconds = 15
        /\ c.image_path # NoPath

\* C10: every detection record with is_grouped set has a parent and no image.
C10_GroupedHasParentNoImage ==
    \A d \in original_detections :
        d.is_grouped => d.parent_detection_id # NoId /\ d.image_path = NoPath

\* the last pass saved an image, and the record it stored is a grouped child
C10_Witness ==
    /\ last_pass.image_path # NoPath
    /\ \E d \in original_detections :
          /\ d.detection_ts = last_pass.ts
          /\ d.is_grouped
          /\ \E e \in original_detections : e.id = d.parent_detection_id /\ ~e.is_grouped

----------------------------------------------------------------------------
(* The native handle, the worker threads and the shutdown                   *)

\* the detections this subsystem is done with: everything but a plate that
\* still waits in the intake queue
DoneWith == {n \in 1..Len(plate_handles) : plate_handles[n].fate # "queued"}

\* C11: for every delivered detection (processed, rejected by validation,
\* failed with an exception, dropped on a full intake queue, or removed when
\* the queues are drained at shutdown) the consumer calls destroy exactly
\* once, and the native release is never performed twice.
C11_ExplicitReleaseOnce ==
    \A n \in DoneWith :
        /\ plate_handles[n].destroy_calls = 1
        /\ plate_handles[n].releases <= 1

\* the text of the detection of this pass is empty after upper-casing and
\* the removal of spaces
EmptyTextPass == PassStep /\ ExtractText(last_pass'.raw) = <<>>

\* C12: a detection whose text is empty after the intake's upper-casing and
\* space removal makes process_plate return None; no CanonicalIdentity, Variant,
\* DetectionRecord or AlertRecord is created or changed, no alert is sent and
\* the alert-throttle map is unchanged.
C12_EmptyTextIsNoData ==
    [][EmptyTextPass =>
         /\ last_pass'.result = NoText
         /\ UNCHANGED <<recognized_plates, plate_variants, original_detections,
                        blacklist_detections, telegram_log, telegram,
                        suspicious_alert_times>>]_vars

\* an empty detection has just been handled while the store holds an identity
C12_Witness ==
    /\ passes >= 2
    /\ ExtractText(last_pass.raw) = <<>>
    /\ last_pass.result = NoText
    /\ recognized_plates # {}
    /\ original_detections # {}

\* stop_all_workers leaves the drain loop of a queue
LeavesDrainOf(queue_name) == stop_pc.at = queue_name /\ stop_pc'.at # queue_name

\* C13: once called, stop_all_workers sets the stop flag, empties the four
\* queues, joins each worker with a bounded timeout and returns, even when
\* workers never stop: a worker still alive after its join timeout does not
\* keep the remaining workers from being joined.
C13_ShutdownCompletes ==
    /\ (stop_pc.at # "idle") ~> (stop_pc.at = "returned")
    /\ [](stop_pc.at # "idle" => stop_flag)
    /\ [][/\ LeavesDrainOf("plate_queue") => plate_queue = <<>>
          /\ LeavesDrainOf("telegram_queue") => telegram_queue = <<>>
          /\ LeavesDrainOf("db_queue") => db_queue = <<>>
          /\ LeavesDrainOf("image_queue") => image_queue = <<>>
          /\ stop_pc.at = "join" =>
                stop_pc' = IF stop_pc.i < Len(Workers)
                           THEN [at |-> "join", i |-> stop_pc.i + 1]
                           ELSE [at |-> "returned", i |-> 0]]_stop_pc

\* stop_all_workers has returned after draining a plate, with the first
\* worker it joined still alive and a later one returned
C13_Witness ==
    /\ stop_pc.at = "returned"
    /\ worker_alive["PlateWorker"]
    /\ ~worker_alive["StatisticsWorker"]
    /\ \E n \in 1..Len(plate_handles) : plate_handles[n].fate = "drained"

\* an iteration of worker w has just ended in its except Exception clause
FailedIteration(w) == worker_errors'[w] = worker_errors[w] + 1

\* C14: an exception raised while a worker loop handles one item or one
\* periodic iteration is caught inside that loop: the loop goes on to its
\* next iteration and no other worker stops; while the stop flag is clear
\* every worker keeps running, however many items failed.
C14_FailureIsolated ==
    /\ [](~stop_flag => \A w \in WorkerNames : worker_alive[w])
    /\ [][\A w \in WorkerNames :
            FailedIteration(w) =>
               /\ worker_alive' = worker_alive
               /\ worker_alive'[w] /\ ~stop_flag']_vars

\* the telegram worker has failed on one item and sent another, with
\* every worker alive
C14_Witness ==
    /\ worker_errors["TelegramWorker"] = 1
    /\ Len(telegram_log) = 1
    /\ ~stop_flag
    /\ \A w \in WorkerNames : worker_alive[w]

\* the tables of the store
StoreTables == <<recognized_plates, original_detections, plate_variants,
                 blacklist_plates, blacklist_detections, db_seq>>

\* C15: blocking I/O stays off the intake path: the store is changed only by
\* the persistence worker taking an item from db_queue, and something is
\* handed to the Telegram API only by the notification worker taking an item
\* from telegram_queue; a pass of the plate worker does neither.
C15_IoOnlyInDedicatedWorkers ==
    [][/\ StoreTables' # StoreTables => Len(db_queue') < Len(db_queue)
       /\ telegram_log' # telegram_log => Len(telegram_queue') < Len(telegram_queue)
       /\ PassStep => StoreTables' = StoreTables /\ telegram_log' = telegram_log]_vars

----------------------------------------------------------------------------
(* The store: rewrite, retention, counters                                  *)

\* the identity with canonical text T is renamed to T2 by this step
IdentityRenamed(T, T2) ==
    \E p \in recognized_plates : \E q \in recognized_plates' :
        /\ p.rowid = q.rowid
        /\ p.plate_text_canonical = T /\ q.plate_text_canonical = T2

\* a DetectionRecord / a Variant referring to T refers to T2 after this step
DetectionRenamed(T, T2) ==
    \E d \in original_detections : \E e \in original_detections' :
        d.id = e.id /\ d.canonical_plate_text_ref = T /\ e.canonical_plate_text_ref = T2
VariantRenamed(T, T2) ==
    \E v \in plate_variants : \E w \in plate_variants' :
        v.id = w.id /\ v.canonical_plate_ref = T /\ w.canonical_plate_ref = T2

\* everything that referred to T before this step refers to T2 after it
AllRenamed(T, T2) ==
    /\ IdentityRenamed(T, T2)
    /\ \A d \in original_detections : \A e \in original_detections' :
          d.id = e.id /\ d.canonical_plate_text_ref = T => e.canonical_plate_text_ref = T2
    /\ \A v \in plate_variants : \A w \in plate_variants' :
          v.id = w.id /\ v.canonical_plate_ref = T => w.canonical_plate_ref = T2

\* C16: the rewrite of a canonical text T to T2 is atomic: the identity row,
\* every DetectionRecord reference and every Variant reference change in one
\* step under the store lock, so no reader under the lock and no committed
\* state shows some of them at T and others at T2, also when one of the
\* rewrite's statements fails.
C16_RewriteAtomic ==
    [][\A T \in RewriteTexts : \A T2 \in RewriteTexts \ {T} :
          IdentityRenamed(T, T2) \/ DetectionRenamed(T, T2) \/ VariantRenamed(T, T2)
             => AllRenamed(T, T2)]_vars

\* the identity row p is gone after this step
Deleted(p) == \A q \in recognized_plates' : q.rowid # p.rowid

\* this step is the database worker running cleanup_old_data
SweepStep ==
    /\ db_queue # <<>> /\ db_queue' = Tail(db_queue)
    /\ Head(db_queue).op = "cleanup"

\* C17: a CanonicalIdentity is deleted only by the retention sweep, and the
\* sweep never deletes an identity whose isBlacklisted flag is true: every
\* identity blacklisted before cleanup_old_data still exists after it, and
\* every deleted identity had lastSeen older than the retention cutoff.
C17_DeletedOnlyBySweep ==
    [][\A p \in recognized_plates :
          Deleted(p) =>
             /\ SweepStep
             /\ ~p.is_blacklisted
             /\ p.last_appearance_ts < now - Head(db_queue).data * 86400]_vars

\* a sweep has deleted an identity (its variants are left behind) and has
\* kept a blacklisted identity that is as old
C17_Witness ==
    /\ \E v \in plate_variants : get_plate_info(Db, v.canonical_plate_ref) = {}
    /\ \E p \in recognized_plates :
          p.is_blacklisted /\ p.last_appearance_ts < now - days_to_keep * 86400

\* C18: while a CanonicalIdentity exists its detectionCount never decreases,
\* across detections, canonical-text rewrites, blacklist additions and
\* removals and alert evaluations.
C18_DetectionCountMonotonic ==
    [][\A p \in recognized_plates : \A q \in recognized_plates' :
          p.rowid = q.rowid => q.detection_count >= p.detection_count]_vars

\* an identity counted three times has been rewritten from AB123C to A8123C
\* and has been blacklisted under its new text
C18_Witness ==
    \E p \in recognized_plates :
        /\ p.plate_text_canonical = A8123C
        /\ p.first_appearance_ts < p.last_appearance_ts
        /\ p.detection_count >= 3
        /\ p.is_blacklisted
        /\ \E v \in plate_variants :
              v.canonical_plate_ref = A8123C /\ v.variant_text = AB123C

----------------------------------------------------------------------------
(* The similarity score                                                     *)

\* C19: the similarity score is symmetric, and so is the weighted edit
\* distance: calculate_similarity_score(a, b) = calculate_similarity_score(b, a)
\* and improved_levenshtein(a, b) = improved_levenshtein(b, a) for all texts
\* over the alphabet.
C19_Symmetric ==
    similarity_call.called =>
       /\ ScoreEQ(similarity_call.score,
                  calculate_similarity_score(similarity_call.s2, similarity_call.s1))
       /\ similarity_call.distance2 =
             improved_levenshtein2(similarity_call.s2, similarity_call.s1)

\* O against C has been scored: the table lists O under C and not C under O
C19_Witness ==
    /\ similarity_call.called
    /\ similarity_call.s1 = <<"o", "0">>
    /\ similarity_call.s2 = <<"C", "0">>
    /\ similarity_call.distance2 = 1

\* C20: the score is 100 exactly when the two inputs normalize to the same
\* string (a text against itself, two empty texts); inputs whose normalized
\* forms differ score strictly below 100, and no score is below 0.
C20_FullScoreIffSameNormalForm ==
    similarity_call.called =>
       /\ ScoreEQ(similarity_call.score, Percent(100))
             <=> normalize_plate(similarity_call.s1) = normalize_plate(similarity_call.s2)
       /\ ScoreGE(similarity_call.score, Percent(0))
       /\ ScoreGE(Percent(100), similarity_call.score)

\* two different texts with the same non-empty normalized form have scored 100
C20_Witness ==
    /\ similarity_call.called
    /\ similarity_call.s1 = <<"o", "-", "0">>
    /\ similarity_call.s2 = <<"o", "0">>
    /\ ScoreEQ(similarity_call.score, Percent(100))

----------------------------------------------------------------------------
(* The substitution cost                                                    *)

\* the classes of confusable characters the specification lists
ConfusableClasses ==
    {{"0","O","Q","D"}, {"1","I","L","7"}, {"5","S"}, {"8","B"}, {"6","G","C"},
     {"2","Z"}, {"E","F"}, {"P","R"}, {"M","N"}, {"U","V"}, {"K","X"}}

\* twice the cost the classes give: 0, 0.5 within a class, 1 otherwise
ClassCost2(char1, char2) ==
    IF char1 = char2 THEN 0
    ELSE IF \E class \in ConfusableClasses : char1 \in class /\ char2 \in class THEN 1
    ELSE 2

\* C21: substituting a character for a different one costs 0.5 whenever both
\* belong to the same listed class of confusable characters, in either
\* direction, 1 when they share no class, and 0 when they are equal.
C21_CostFollowsClasses ==
    similarity_call.called =>
        similarity_call.distance2 = ClassCost2(similarity_call.s1[1], similarity_call.s2[1])

----------------------------------------------------------------------------
(* Normalisation                                                            *)

\* the characters the claim lists: whitespace, '-', '_', '.', ',', '/', '\'
ListedSeparators == {" ", "\t", "\n", "\r", "\f", "-", "_", ".", ",", "/", "\\"}

\* one character in lower case
CharLower(c) ==
    IF \E i \in 1..Len(UpperLetters) : UpperLetters[i] = c
    THEN LowerLetters[CHOOSE i \in 1..Len(UpperLetters) : UpperLetters[i] = c]
    ELSE c

\* the text read from the left: listed separators skipped, the rest upper-cased
RECURSIVE UpperWithoutSeparators(_)
UpperWithoutSeparators(s) ==
    IF s = <<>> THEN <<>>
    ELSE IF Head(s) \in ListedSeparators THEN UpperWithoutSeparators(Tail(s))
    ELSE <<CharUpper(Head(s))>> \o UpperWithoutSeparators(Tail(s))

\* the text read from the left: listed separators skipped, the rest lower-cased
RECURSIVE LowerWithoutSeparators(_)
LowerWithoutSeparators(s) ==
    IF s = <<>> THEN <<>>
    ELSE IF Head(s) \in ListedSeparators THEN LowerWithoutSeparators(Tail(s))
    ELSE <<CharLower(Head(s))>> \o LowerWithoutSeparators(Tail(s))

\* C22: normalize_plate returns the input upper-cased with every whitespace
\* character and every '-', '_', '.', ',', '/', '\' removed; the empty input
\* gives the empty output, normalising the result again changes nothing, and
\* two inputs that differ only in letter case and separators give the same
\* result.
C22_NormalizeUpperNoSeparators ==
    similarity_call.called =>
       /\ similarity_call.s1_norm = UpperWithoutSeparators(similarity_call.s1)
       /\ similarity_call.s1 = <<>> => similarity_call.s1_norm = <<>>
       /\ normalize_plate(similarity_call.s1_norm) = similarity_call.s1_norm
       /\ LowerWithoutSeparators(similarity_call.s1) = LowerWithoutSeparators(similarity_call.s2)
             => similarity_call.s1_norm = similarity_call.s2_norm

\* "AZ-123 AB" and "az123ab" have both been normalised to AZ123AB
C22_Witness ==
    /\ similarity_call.called
    /\ similarity_call.s1 = AZ_123_AB
    /\ similarity_call.s2 = az123ab
    /\ similarity_call.s1_norm = <<"A","Z","1","2","3","A","B">>
    /\ similarity_call.s2_norm = similarity_call.s1_norm

----------------------------------------------------------------------------
(* Persistence failures                                                     *)

\* a pass over a valid text during which store methods raised
FailingPass == PassStep /\ last_pass'.failing # {} /\ last_pass'.text # NoText

\* the canonical text resolution gives for the texts the pass fetched
ResolvedText ==
    LET best == find_best_match(last_pass'.text, last_pass'.canonical_plates,
                                get_adaptive_threshold(Len(normalize_plate(last_pass'.text))))
    IN IF last_pass'.canonical_plates # <<>> /\ best.match # NoText THEN best.match
       ELSE last_pass'.text

\* C23: a failing store method never stops a pass: whichever of creating the
\* identity, updating it, appending the detection, upserting the variant and
\* logging the alert fails, process_plate returns the resolved canonical text
\* and the alerts of the detection are evaluated (a text that qualifies
\* against the cached blacklist hands one blacklist alert to the notifier).
C23_StoreFailureDoesNotStopPass ==
    [][FailingPass =>
         /\ last_pass'.result = ResolvedText
         /\ QualifiesBlacklist =>
               /\ Len(SelectSeq(NewLogEntries, IsBlacklistAlert)) = 1
               /\ \A i \in 1..Len(NewLogEntries) :
                     IsBlacklistAlert(NewLogEntries[i]) =>
                        /\ NewLogEntries[i].plate = last_pass'.result
                        /\ NewLogEntries[i].ts = last_pass'.ts]_vars

\* every store method failed in the last pass: nothing was stored, AB123C was
\* returned and its blacklist alert was handed to the notifier
C23_Witness ==
    /\ last_pass.failing = StoreMethods
    /\ last_pass.created
    /\ last_pass.result = AB123C
    /\ recognized_plates = {} /\ original_detections = {} /\ blacklist_detections = <<>>
    /\ \E i \in 1..Len(telegram_log) :
          /\ IsBlacklistAlert(telegram_log[i])
          /\ telegram_log[i].plate = AB123C
          /\ telegram_log[i].ts = last_pass.ts

----------------------------------------------------------------------------
(* Order of the detection records                                           *)

\* the rows of original_detections written for delivery number n
RecordsOf(n) == {d \in original_detections : d.id = plate_handles[n].detection}

\* deliveries i and j were both processed and their records belong to one identity
SameIdentityProcessed(i, j) ==
    /\ plate_handles[i].detection # NoId
    /\ plate_handles[j].detection # NoId
    /\ \E d1 \in RecordsOf(i), d2 \in RecordsOf(j) :
          d1.canonical_plate_text_ref = d2.canonical_plate_text_ref

\* C24: within one identity the detection records are appended in the order
\* in which the detections were accepted into the intake queue: of two
\* processed detections of an identity, the one enqueued first has the
\* smaller record id and not the later detection time, whatever the other
\* workers did in between.
C24_RecordsInArrivalOrder ==
    \A i, j \in 1..Len(plate_handles) :
        i < j /\ SameIdentityProcessed(i, j) =>
           /\ plate_handles[i].detection < plate_handles[j].detection
           /\ \A d1 \in RecordsOf(i), d2 \in RecordsOf(j) : d1.detection_ts <= d2.detection_ts

\* two queued detections of one identity were processed, the retention sweep
\* ran and a report was sent meanwhile
C24_Witness ==
    /\ Len(plate_handles) >= 2
    /\ SameIdentityProcessed(1, 2)
    /\ plate_handles[1].detection = 1 /\ plate_handles[2].detection = 2
    /\ telegram_log # <<>>
    /\ recent_plates = <<>>

----------------------------------------------------------------------------
(* Prompt shutdown                                                          *)

\* stop_all_workers has finished its join of self.workers[i]
Joined(i) == stop_pc.at = "returned" \/ (stop_pc.at = "join" /\ stop_pc.i > i)

\* C25: once the stop flag is set every worker loop, standing in its wait,
\* leaves the loop before the join timeout of stop_all_workers expires: when
\* the join of a worker has ended, the worker has returned.
C25_WorkersLeaveBeforeJoinTimeout ==
    \A i \in 1..Len(Workers) : Joined(i) => ~worker_alive[Workers[i]]

----------------------------------------------------------------------------
(* Puts on another worker's queue                                           *)

\* C26: no worker waits on another worker's queue: when the cleanup worker
\* queues the retention sweep on db_queue, or the statistics worker the daily
\* report on telegram_queue, the put returns without waiting even if the
\* queue is full, so the iteration that has reached its put can always
\* complete.
C26_PutNeverWaits ==
    /\ Running("CleanupWorker") => ENABLED CleanupWorker(FALSE)
    /\ Running("StatisticsWorker") => ENABLED StatisticsWorker(FALSE)

----------------------------------------------------------------------------
(* The blacklist cache                                                      *)

\* a pass that reaches the blacklist lookup
LookupStep == PassStep /\ last_pass'.result # NoText

\* the rows a cached list holds
EntrySet(entries) == {entries[i] : i \in 1..Len(entries)}

\* C27: a lookup made no more than 60 s after the last refresh returns the
\* list fetched at that refresh, whatever was added to or removed from the
\* store since; a lookup made more than 60 s after the last refresh (and the
\* very first lookup) fetches the full blacklist from the store and returns it.
C27_TtlReadThrough ==
    [][LookupStep =>
         IF now' - blacklist_cache.time > 60
         THEN /\ blacklist_cache'.time = now'
              /\ EntrySet(blacklist_cache'.entries) = blacklist_plates
              /\ Len(blacklist_cache'.entries) = Cardinality(blacklist_plates)
         ELSE blacklist_cache' = blacklist_cache]_vars

\* a lookup exactly 60 s after the refresh has used the cached empty list
\* although the store holds an entry by now
C27_Witness ==
    /\ passes >= 2
    /\ last_pass.result # NoText
    /\ last_pass.ts - blacklist_cache.time = 60
    /\ blacklist_cache.entries = <<>>
    /\ blacklist_plates # {}
    /\ blacklist_detections = <<>>

----------------------------------------------------------------------------
(* The lock around the alert throttle map                                   *)

\* clear_cache is reading suspicious_alert_times or deleting from it
Pruning == clear_cache_at.pc \in {"scan", "delete"}

\* C28: every access to the throttle map happens under one and the same lock:
\* while clear_cache reads or prunes the map the cleanup worker holds the lock
\* that process_plate holds for its check and update, so the pruning never
\* runs while the plate worker is inside its pass.
C28_ThrottleAccessUnderOneLock ==
    /\ Pruning => processing_lock = "CleanupWorker"
    /\ ~(Pruning /\ processing_lock = "PlateWorker")

----------------------------------------------------------------------------
(* The suspicious-presence flag                                             *)

\* the identity the last pass resolved its detection to, as stored after the pass
ResolvedIdentity == {p \in recognized_plates' : p.rowid = last_pass'.identity}

\* the dwell of identity p at the time of the last pass, in seconds
DwellSeconds(p) == last_pass'.ts - p.first_appearance_ts

\* C29: after a pass that resolved its detection to an identity whose dwell
\* (detection time minus first appearance) exceeds the suspicious-duration
\* threshold, the identity's suspicious flag is set, whether or not the alert
\* was throttled; and a flag that is set is never cleared again.
C29_FlagSetOnDwell ==
    [][/\ PassStep =>
             \A p \in ResolvedIdentity :
                DwellSeconds(p) > suspicious_duration_minutes * 60
                   => p.is_suspiciously_present
       /\ \A p \in recognized_plates : \A q \in recognized_plates' :
             p.rowid = q.rowid /\ p.is_suspiciously_present
                => q.is_suspiciously_present]_vars

----------------------------------------------------------------------------
(* The dwell check                                                          *)

\* the throttle lets an alert for plate_text through at the time of the pass
NotInCooldown(plate_text) ==
    \/ plate_text \notin DOMAIN suspicious_alert_times
    \/ last_pass'.ts - suspicious_alert_times[plate_text] >= suspicious_alert_interval

\* the suspicious-dwell alerts the pass handed to the notifier
DwellAlerts == SelectSeq(NewLogEntries, IsSuspiciousAlert)

\* C30: a pass that resolved its detection to an identity whose dwell is
\* greater than suspicious_duration_minutes minutes sends a suspicious-dwell
\* alert unless the throttle holds it back; a pass over a dwell at or below
\* the threshold sends none.
C30_DwellCheckFires ==
    [][PassStep =>
         \A p \in ResolvedIdentity :
            /\ DwellSeconds(p) > suspicious_duration_minutes * 60
                  /\ NotInCooldown(last_pass'.result)
                  => Len(DwellAlerts) = 1
            /\ DwellSeconds(p) <= suspicious_duration_minutes * 60
                  => DwellAlerts = <<>>]_vars

----------------------------------------------------------------------------
(* Variants                                                                 *)

\* C31: under each identity there is one Variant row per distinct normalized
\* text: no two Variant rows of one identity have texts that normalize to the
\* same string (detections whose texts normalize alike update the same row).
C31_OneVariantPerNormalizedText ==
    \A v, w \in plate_variants :
        /\ v.canonical_plate_ref = w.canonical_plate_ref
        /\ normalize_plate(v.variant_text) = normalize_plate(w.variant_text)
        => v = w

----------------------------------------------------------------------------
(* The canonical text a pass goes on with                                   *)

\* C32: the canonical text a pass returns and evaluates its alerts with is
\* the identity's canonical text after the pass: when persisting the
\* detection rewrites the text, the returned value, the alerts of the pass
\* and the throttle key are the rewritten text, so the dwell check finds the
\* identity.
C32_PassUsesCurrentCanonical ==
    [][PassStep =>
         \A p \in ResolvedIdentity :
            /\ last_pass'.result = p.plate_text_canonical
            /\ \A i \in 1..Len(NewLogEntries) :
                  NewLogEntries[i].plate = p.plate_text_canonical
            /\ DOMAIN suspicious_alert_times' \ DOMAIN suspicious_alert_times
                  \subseteq {p.plate_text_canonical}]_vars

----------------------------------------------------------------------------
(* Counting detections                                                      *)

\* the DetectionRecords that reference identity p
DetectionsOf(p) ==
    {d \in original_detections : d.canonical_plate_text_ref = p.plate_text_canonical}

\* C33: the detection count of an identity is the number of detections
\* resolved to it, the creating one included, which is the number of
\* DetectionRecords that reference it.
C33_DetectionCountExact ==
    \A p \in recognized_plates : p.detection_count = Cardinality(DetectionsOf(p))

----------------------------------------------------------------------------
(* Distinct identities                                                      *)

----------------------------------------------------------------------------
(* Variants and their identity                                              *)

\* C35: variants never outlive their identity: the identity reference of
\* every Variant row names an existing identity, also after a retention sweep
\* has deleted identities.
C35_VariantsHaveIdentity ==
    \A v \in plate_variants :
        \E p \in recognized_plates : p.plate_text_canonical = v.canonical_plate_ref

----------------------------------------------------------------------------
(* Detections and their identity                                            *)

\* C36: every DetectionRecord references an existing identity, under any
\* interleaving of the plate worker's pass with the retention sweep run by
\* the database worker.
C36_DetectionsHaveIdentity ==
    \A d \in original_detections :
        \E p \in recognized_plates : p.plate_text_canonical = d.canonical_plate_text_ref

----------------------------------------------------------------------------
(* C37: detection groups are one level deep and stay intact: the parent     *)
(* reference of every grouped detection row names an existing row that is   *)
(* itself ungrouped, belongs to the same identity and is less than 10       *)
(* seconds older than the child                                             *)

ParentsOf(d) == {p \in original_detections : p.id = d.parent_detection_id}

C37_GroupsIntact ==
    \A d \in original_detections :
       d.is_grouped =>
          \E p \in ParentsOf(d) :
             /\ ~p.is_grouped
             /\ p.canonical_plate_text_ref = d.canonical_plate_text_ref
             /\ d.detection_ts - p.detection_ts < 10

----------------------------------------------------------------------------
(* C38: the is_blacklisted flag of every identity is true exactly when its  *)
(* current canonical text is the text of a row of blacklist_plates          *)

OnBlacklist(plate_text) == \E b \in blacklist_plates : b.plate_text = plate_text

C38_FlagAgreesWithBlacklist ==
    \A p \in recognized_plates :
       p.is_blacklisted <=> OnBlacklist(p.plate_text_canonical)

----------------------------------------------------------------------------
(* C39: the locks cannot deadlock: no thread asks for processing_lock while *)
(* it holds db_lock, no thread asks for db_lock while it holds db_lock, no  *)
(* thread asks for any lock while it holds stats_lock, and every thread     *)
(* that asks for a lock eventually holds it                                 *)

Requests(thread, lock) ==
    /\ thread_at[thread] # <<>>
    /\ Head(thread_at[thread]) = [op |-> "acquire", lock |-> lock]

LockNames == {"processing_lock", "db_lock", "stats_lock"}

LockOrderKept ==
    \A thread \in LockThreads :
       /\ Requests(thread, "processing_lock") => db_lock # thread
       /\ Requests(thread, "db_lock") => db_lock # thread
       /\ stats_lock = thread => \A lock \in LockNames : ~Requests(thread, lock)

====
